---- MODULE Spec2Model ----
(***************************************************************************)
(* Model of BidGenerate.  The LLM-call layer: the retrying, model-rotating  *)
(* chat client (llm_client.py), the disk cache and the cached JSON/text     *)
(* helpers (src/caching.py) and the knowledge-base ranker (src/kb_search.py)*)
(* The document pipeline: merge_contents (src/content_merge.py), the        *)
(* Markdown-to-LaTeX conversion (src/latex_renderer.py), compile_pdf,       *)
(* format_bid_date and apply_project_config (src/pdf_builder.py) and        *)
(* build_outline (src/outline_builder.py).  The input side: the table      *)
(* converters (src/table_extractor.py), parse_requirements                 *)
(* (src/requirements_parser.py), the input truncation of LLMClient.chat    *)
(* and the page loop of extract_requirements (full_pipeline.py,            *)
(* scripts/pdf_extractor.py).                                              *)
(***************************************************************************)
EXTENDS Integers, Sequences, FiniteSets, TLC

\* ------------------------------------------------------------------------
\* Bounds of the model
\* ------------------------------------------------------------------------
MaxModels == 3
MaxRetries == 3
\* The per-call request count is an observation, not program state; it stops
\* counting at MaxReq so that an endless call has finitely many states.
MaxReq == MaxRetries + MaxModels + 2

\* llm_client.py:48  _model_index default
StartIndex == 2

VARIABLES
    nModels,          \* len(self.models)
    model_index,      \* self._model_index (0-based, as in the source)
    max_retries,      \* self.max_retries
    request_counter,  \* self._request_counter, kept modulo 2 (only "% 2" is read)
    pc,               \* position of the current chat call
    attempt,          \* local variable attempt of chat
    requests,         \* observation: conversation.call invocations of this chat call
    usedModels,       \* observation: model indexes those invocations were sent to
    delays,           \* observation: backoff sleeps of this chat call, in order
    lastOutcome,      \* observation: outcome of the latest invocation
    quotaSeen,        \* observation: some invocation of this call got a quota error
    cache,            \* LLMCache.cache_dir: file name (key) |-> file content
    shadow,           \* observation: message list (fields unordered) |-> value of its latest set
    sets,             \* observation: number of LLMCache.set operations done
    lastGet,          \* observation: the latest LLMCache.get: argument, result, latest set
    last,             \* observation: the latest llm_json / llm_rewrite call
    answered,         \* observation: <<function, system, user>> |-> first value returned
    rk,               \* the rank_files call: its arguments, loop position, scores, result
    mg,               \* the merge_contents call: arguments, loop position, sections, meta
    lx,               \* the latest call of a function of latex_renderer.py
    cp,               \* the compile_pdf call: position, files, log, result
    pj,               \* os.environ and the latest apply_project_config / format_bid_date call
    ol,               \* the latest build_outline call
    tb,               \* a table and what the two rendering paths made of it
    pr,               \* the latest parse_requirements call
    tk,               \* the message list of a chat call and what is sent of it
    ex                \* the extract_requirements run: pages, position, results, file

chatVars == <<nModels, model_index, max_retries, request_counter, pc, attempt,
              requests, usedModels, delays, lastOutcome, quotaSeen>>

cacheVars == <<cache, shadow, sets, lastGet>>

jsonVars == <<last, answered>>

docVars == <<mg, lx, cp, pj, ol>>

extVars == <<tb, pr, tk, ex>>

vars == <<chatVars, cacheVars, jsonVars, rk, docVars, extVars>>

\* ------------------------------------------------------------------------
\* Texts.  A text is a sequence of tokens.  One-character tokens:
\*   "{" "}" "[" "]" ","   JSON punctuation    "a" "x"   ordinary letters
\*   "q"  the double quote    "b"  the backslash
\*   "s"  space   "CR"  carriage return   "LF"  line feed   "TAB"  tab
\* Multi-character tokens, each standing for the fixed string it names:
\*   "J"  ```json          "F"  ```
\*   "OBJ_ITEMS"     the text json.dumps gives for default_data (caching.py:118)
\*   "OBJ_SCORE_n"   the text {"score": 0.n}
\*   "OBJ_REQ" "OBJ_REQ_W"   the texts of requirement objects (see parse_requirements)
\*   "REQS_A" "REQS_NONE" "REQS_STR" "OBJ_RT_A" "OBJ_RT_X" "OBJ_CAT"
\*                    the texts of further objects (see the requirement extractor)
\*   "NUMBER"  0      "NULL"  null
\*   "role" "content" "system" "user" "id" "title"   the words themselves
\*   "NEWPAGE"  the text \newpage (a backslash and the word newpage)
\*   "SYS_LATEX" "SYS_MERGE"   the texts of two system prompts; both hold
\*                    line feeds, the first holds backslashes too
\* A message's content is a text, or a one-element tuple of a text: the
\* mark "TUPLE" followed by the tokens of that text.
\* ------------------------------------------------------------------------
Whitespace == {"s", "CR", "LF", "TAB"}
\* The tokens that are the text of a JSON object: each begins with {" and
\* ends with }.
ObjectTokens == {"OBJ_ITEMS", "OBJ_SCORE_0", "OBJ_SCORE_1", "OBJ_SCORE_5", "OBJ_SCORE_9",
                 "OBJ_REQ", "OBJ_REQ_W", "REQS_A", "REQS_NONE", "REQS_STR",
                 "OBJ_RT_A", "OBJ_RT_X", "OBJ_CAT"}
\* The tokens that are the text of a number or of null.
ScalarTokens == {"NUMBER", "NULL"}

\* Optional values (Python's "x | None").
None == [some |-> FALSE, text |-> <<>>]
Some(t) == [some |-> TRUE, text |-> t]

RECURSIVE Concat(_)
Concat(ss) == IF ss = <<>> THEN <<>> ELSE Head(ss) \o Concat(Tail(ss))

\* str.strip()
RECURSIVE LStrip(_)
LStrip(t) == IF t # <<>> /\ Head(t) \in Whitespace THEN LStrip(Tail(t)) ELSE t
RECURSIVE RStrip(_)
RStrip(t) == IF t # <<>> /\ t[Len(t)] \in Whitespace
             THEN RStrip(SubSeq(t, 1, Len(t) - 1)) ELSE t
Strip(t) == RStrip(LStrip(t))

\* ------------------------------------------------------------------------
\* LLMCache (src/caching.py)
\* ------------------------------------------------------------------------
\* A message is a dict in insertion order: a sequence of <<field, value>>.
FieldOrder == <<"content", "role">>     \* the fields in sorted order

HasField(msg, f) == \E i \in 1..Len(msg) : msg[i][1] = f
FieldValue(msg, f) == msg[CHOOSE i \in 1..Len(msg) : msg[i][1] = f][2]

\* The dict itself, without the order of its fields.
AsDict(msg) == [f \in {msg[i][1] : i \in 1..Len(msg)} |-> FieldValue(msg, f)]
AsDicts(messages) == [i \in 1..Len(messages) |-> AsDict(messages[i])]

\* json.dumps of a string with ensure_ascii=False: quoted and escaped.  The
\* escapes of carriage return, line feed and tab are the backslash and the
\* letter "r", "n" or "t".  The backslash that begins \newpage is doubled.
\* "ESC" followed by an object token or the token of a system prompt stands
\* for the text of that token with a backslash before each of its quotes
\* and backslashes and with the backslash and the letter "n" for each of its
\* line feeds.
EscapeChar(ch) ==
    CASE ch = "q"   -> <<"b", "q">>
      [] ch = "b"   -> <<"b", "b">>
      [] ch = "CR"  -> <<"b", "r">>
      [] ch = "LF"  -> <<"b", "n">>
      [] ch = "TAB" -> <<"b", "t">>
      [] ch = "NEWPAGE" -> <<"b", "NEWPAGE">>
      [] ch \in ObjectTokens \cup {"SYS_LATEX", "SYS_MERGE"} -> <<"ESC", ch>>
      [] OTHER      -> <<ch>>
DumpsStr(str) == <<"q">> \o Concat([i \in 1..Len(str) |-> EscapeChar(str[i])]) \o <<"q">>

\* json.dumps of the value of a field: a string, or a tuple of one string,
\* which is written as a list.
DumpsValue(value) ==
    IF value # <<>> /\ Head(value) = "TUPLE" THEN <<"[">> \o DumpsStr(Tail(value)) \o <<"]">>
    ELSE DumpsStr(value)

\* json.dumps(msg, ensure_ascii=False, sort_keys=True)
RECURSIVE DumpsItems(_, _, _)
DumpsItems(msg, fields, first) ==
    IF fields = <<>> THEN <<>>
    ELSE IF HasField(msg, Head(fields))
    THEN (IF first THEN <<>> ELSE <<",", "s">>)
         \o DumpsStr(<<Head(fields)>>) \o <<":", "s">>
         \o DumpsValue(FieldValue(msg, Head(fields)))
         \o DumpsItems(msg, Tail(fields), FALSE)
    ELSE DumpsItems(msg, Tail(fields), first)
DumpsMsg(msg) == <<"{">> \o DumpsItems(msg, FieldOrder, TRUE) \o <<"}">>

\* hashlib.sha256(...).hexdigest(): the digest is taken to be collision free,
\* so it is represented by the bytes that were hashed.
Sha256(bytes) == bytes

\* LLMCache._key
Key(messages) == Sha256(Concat([i \in 1..Len(messages) |-> DumpsMsg(messages[i])]))

\* Path.read_text: text mode with universal newlines, "\r\n" and "\r" are
\* read as "\n".
RECURSIVE ReadText(_)
ReadText(t) ==
    IF t = <<>> THEN <<>>
    ELSE IF Head(t) = "CR"
    THEN IF Len(t) >= 2 /\ t[2] = "LF"
         THEN <<"LF">> \o ReadText(SubSeq(t, 3, Len(t)))
         ELSE <<"LF">> \o ReadText(Tail(t))
    ELSE <<Head(t)>> \o ReadText(Tail(t))

\* LLMCache.get
CacheGet(c, messages) ==
    LET key == Key(messages)
    IN  IF key \in DOMAIN c THEN Some(ReadText(c[key])) ELSE None

\* LLMCache.set  (Path.write_text writes "\n" as os.linesep, which is "\n" here)
CacheSet(c, messages, value) ==
    LET key == Key(messages)
    IN  [k \in DOMAIN c \cup {key} |-> IF k = key THEN value ELSE c[k]]

\* Inputs of the cache operations.
MaxSets == 2
MsgSU(system, user) ==
    << <<<<"role", <<"system">>>>, <<"content", system>>>>,
       <<<<"role", <<"user">>>>, <<"content", user>>>> >>
SwapFields(messages) ==
    [i \in 1..Len(messages) |-> <<messages[i][2], messages[i][1]>>]
Reverse(messages) == [i \in 1..Len(messages) |-> messages[Len(messages) + 1 - i]]
BaseLists ==
    { MsgSU(<<"a">>, <<"x">>), MsgSU(<<"a", "x">>, <<>>),
      MsgSU(<<"a", "q">>, <<"x">>) }
MessageLists ==
    BaseLists \cup {SwapFields(m) : m \in BaseLists}
              \cup {Reverse(m) : m \in BaseLists}
              \cup { <<>>, << <<<<"content", <<"a">>>>>> >> }
CacheValues == { <<>>, <<"x">>, <<"x", "LF", "x">>, <<"x", "CR", "LF", "x">> }

EmptyDir == [k \in {} |-> <<>>]

InitCacheVars ==
    /\ cache = EmptyDir
    /\ shadow = EmptyDir
    /\ sets = 0
    /\ lastGet = [asked |-> FALSE, messages |-> <<>>, result |-> None, latest |-> None]

SetOp(messages, value) ==
    /\ sets < MaxSets
    /\ cache' = CacheSet(cache, messages, value)
    /\ shadow' = [d \in DOMAIN shadow \cup {AsDicts(messages)} |->
                     IF d = AsDicts(messages) THEN value ELSE shadow[d]]
    /\ sets' = sets + 1
    /\ UNCHANGED lastGet

GetOp(messages) ==
    /\ lastGet' = [asked |-> TRUE, messages |-> messages,
                   result |-> CacheGet(cache, messages),
                   latest |-> IF AsDicts(messages) \in DOMAIN shadow
                              THEN Some(shadow[AsDicts(messages)]) ELSE None]
    /\ UNCHANGED <<cache, shadow, sets, extVars>>

CacheSetStep ==
    /\ \E m \in MessageLists, v \in CacheValues : SetOp(m, v)
    /\ UNCHANGED <<chatVars, jsonVars, rk, docVars, extVars>>
CacheGetStep ==
    /\ \E m \in MessageLists : GetOp(m)
    /\ UNCHANGED <<chatVars, jsonVars, rk, docVars, extVars>>
NextCache == CacheSetStep \/ CacheGetStep

\* ------------------------------------------------------------------------
\* llm_json and llm_rewrite (src/caching.py)
\* ------------------------------------------------------------------------
\* What client.chat gives back: a text, or an exception.
Reply(t) == [ok |-> TRUE, text |-> t]
ChatRaises == [ok |-> FALSE, text |-> <<>>]
NotAsked == [ok |-> FALSE, text |-> <<"-">>]

\* Results of a call: a value, or an exception that leaves the function.
Value(v) == [kind |-> "value", val |-> v]
Raised == [kind |-> "raise", val |-> <<>>]

\* "text.strip(); drop a leading ```json; drop a trailing ```; text.strip()"
StripFences(t) ==
    LET t1 == Strip(t)
        t2 == IF t1 # <<>> /\ Head(t1) = "J" THEN Tail(t1) ELSE t1
        t3 == IF t2 # <<>> /\ t2[Len(t2)] = "F" THEN SubSeq(t2, 1, Len(t2) - 1) ELSE t2
    IN  Strip(t3)

\* json.loads on the texts of this alphabet.  The values that can be
\* written are the object tokens, the scalar tokens, {}, strings and arrays
\* of values, with whitespace between them.  The parsed value is represented
\* by its json.dumps text: the text without the whitespace outside strings
\* and with ", " between the elements of an array.
NoWs(t) == SelectSeq(t, LAMBDA ch : ch \notin Whitespace)
\* The first position at or after i that holds no whitespace.
RECURSIVE SkipWs(_, _)
SkipWs(t, i) == IF i <= Len(t) /\ t[i] \in Whitespace THEN SkipWs(t, i + 1) ELSE i
\* Tokens a JSON string may hold as they are: no quote, backslash or control
\* character in them.  After a backslash: the quote, the backslash, and the
\* words whose first letter makes an escape (\r, \t, \n).
StringTokens == {"a", "x", "s", "{", "}", "[", "]", ",", "J", "F",
                 "role", "content", "system", "user", "id", "title",
                 "NUMBER", "NULL"}
Escapable == {"q", "b", "role", "title", "NULL"}
\* The position of the quote that closes the string whose content starts at
\* j, 0 when the text is no string there.
RECURSIVE StringEnd(_, _)
StringEnd(t, j) ==
    IF j > Len(t) THEN 0
    ELSE IF t[j] = "q" THEN j
    ELSE IF t[j] = "b"
    THEN IF j + 1 <= Len(t) /\ t[j + 1] \in Escapable THEN StringEnd(t, j + 2) ELSE 0
    ELSE IF t[j] \in StringTokens THEN StringEnd(t, j + 1)
    ELSE 0
\* The value that starts at position i (whitespace skipped): its json.dumps
\* text and the position after it.  ParseRest reads what follows an element
\* of an array: the closing bracket, or a comma and a further element.
NoValue == [ok |-> FALSE, data |-> <<>>, next |-> 0]
RECURSIVE ParseValue(_, _)
RECURSIVE ParseRest(_, _, _)
ParseValue(t, i) ==
    LET j == SkipWs(t, i)
        k == SkipWs(t, j + 1)
    IN  IF j > Len(t) THEN NoValue
        ELSE IF t[j] \in ObjectTokens \cup ScalarTokens
        THEN [ok |-> TRUE, data |-> <<t[j]>>, next |-> j + 1]
        ELSE IF t[j] = "q"
        THEN IF StringEnd(t, j + 1) = 0 THEN NoValue
             ELSE [ok |-> TRUE, data |-> SubSeq(t, j, StringEnd(t, j + 1)),
                   next |-> StringEnd(t, j + 1) + 1]
        ELSE IF t[j] = "{"
        THEN IF k <= Len(t) /\ t[k] = "}"
             THEN [ok |-> TRUE, data |-> <<"{", "}">>, next |-> k + 1] ELSE NoValue
        ELSE IF t[j] = "["
        THEN IF k <= Len(t) /\ t[k] = "]"
             THEN [ok |-> TRUE, data |-> <<"[", "]">>, next |-> k + 1]
             ELSE LET v == ParseValue(t, k)
                  IN  IF v.ok THEN ParseRest(t, v.next, <<"[">> \o v.data) ELSE NoValue
        ELSE NoValue
ParseRest(t, i, data) ==
    LET e == SkipWs(t, i)
    IN  IF e > Len(t) THEN NoValue
        ELSE IF t[e] = "]" THEN [ok |-> TRUE, data |-> data \o <<"]">>, next |-> e + 1]
        ELSE IF t[e] = ","
        THEN LET v == ParseValue(t, e + 1)
             IN  IF v.ok THEN ParseRest(t, v.next, data \o <<",", "s">> \o v.data)
                 ELSE NoValue
        ELSE NoValue
IsJsonValue(t) == ParseValue(t, 1).ok /\ SkipWs(t, ParseValue(t, 1).next) > Len(t)
ParseError == [ok |-> FALSE, data |-> <<>>]
JsonLoads(t) == IF IsJsonValue(t) THEN [ok |-> TRUE, data |-> ParseValue(t, 1).data]
                ELSE ParseError

\* The type of a parsed value, and the elements of a parsed array.
TypeOf(data) ==
    CASE Head(data) = "[" -> "list"
      [] Head(data) = "q" -> "str"
      [] Head(data) = "NUMBER" -> "int"
      [] Head(data) = "NULL" -> "NoneType"
      [] OTHER -> "dict"
RECURSIVE ElementsFrom(_, _)
ElementsFrom(data, i) ==
    IF data[i] = "]" THEN <<>>
    ELSE LET v == ParseValue(data, IF data[i] = "," THEN i + 1 ELSE i)
         IN  <<v.data>> \o ElementsFrom(data, v.next)
ElementsOf(data) == ElementsFrom(data, 2)

\* json.dumps(data, ensure_ascii=False)
JsonDumps(data) == data

\* text.find('{') and text.rfind('}'), as token positions (0 when not found).
OpensBrace(ch) == ch = "{" \/ ch \in ObjectTokens
ClosesBrace(ch) == ch = "}" \/ ch \in ObjectTokens
FindOpen(t) == IF \E i \in 1..Len(t) : OpensBrace(t[i])
               THEN CHOOSE i \in 1..Len(t) :
                        OpensBrace(t[i]) /\ \A j \in 1..(i - 1) : ~OpensBrace(t[j])
               ELSE 0
RFindClose(t) == IF \E i \in 1..Len(t) : ClosesBrace(t[i])
                 THEN CHOOSE i \in 1..Len(t) :
                          ClosesBrace(t[i]) /\ \A j \in (i + 1)..Len(t) : ~ClosesBrace(t[j])
                 ELSE 0
\* "json_start != -1 and json_end > json_start"
HasBraces(t) == FindOpen(t) # 0 /\ RFindClose(t) >= FindOpen(t)
\* "json.loads(text[json_start:json_end])" under that condition
BraceParse(t) == IF HasBraces(t)
                 THEN JsonLoads(SubSeq(t, FindOpen(t), RFindClose(t)))
                 ELSE ParseError

\* default_data (caching.py:118)
DefaultData == <<"OBJ_ITEMS">>

\* The first response needs a repair request: lines 67-88.
NeedsRepairNoBrace(text) == ~JsonLoads(text).ok
NeedsRepair(text) == ~JsonLoads(text).ok /\ ~BraceParse(text).ok

\* The part of llm_json after the first response arrived (lines 59-120).
\* c: the cache, r1: the first response, r2: the response to the repair request.
AfterFirstReply(c, messages, r1, r2) ==
    LET text == StripFences(r1.text)
        tried1 == <<"parse1">> \o (IF HasBraces(text) THEN <<"brace1">> ELSE <<>>)
        store(data, tr, n) ==
            [ret |-> Value(data), cache |-> CacheSet(c, messages, JsonDumps(data)),
             chats |-> n, trace |-> tr]
    IN  IF ~NeedsRepair(text)
        THEN IF JsonLoads(text).ok
             THEN store(JsonLoads(text).data, <<"parse1">>, 1)
             ELSE store(BraceParse(text).data, tried1, 1)
        ELSE IF ~r2.ok
        THEN [ret |-> Raised, cache |-> c, chats |-> 2, trace |-> tried1 \o <<"repair">>]
        ELSE LET text2 == StripFences(r2.text)
                 tried2 == tried1 \o <<"repair">>
                           \o (IF HasBraces(text2) THEN <<"brace2">> ELSE <<>>)
             IN  IF BraceParse(text2).ok
                 THEN store(BraceParse(text2).data, tried2, 2)
                 ELSE store(DefaultData, tried2 \o <<"default">>, 2)

\* llm_json
LlmJson(c, system, user, r1, r2) ==
    LET messages == MsgSU(system, user)
        cached == CacheGet(c, messages)
    IN  IF cached.some /\ JsonLoads(cached.text).ok
        THEN [ret |-> Value(JsonLoads(cached.text).data), cache |-> c,
              chats |-> 0, trace |-> <<>>]
        ELSE LET c1 == IF cached.some THEN CacheSet(c, messages, <<>>) ELSE c
             IN  IF ~r1.ok
                 THEN [ret |-> Raised, cache |-> c1, chats |-> 1, trace |-> <<>>]
                 ELSE AfterFirstReply(c1, messages, r1, r2)

\* llm_rewrite
LlmRewrite(c, system, user, r1) ==
    LET messages == MsgSU(system, user)
        cached == CacheGet(c, messages)
    IN  IF cached.some
        THEN [ret |-> Value(cached.text), cache |-> c, chats |-> 0, trace |-> <<>>]
        ELSE IF ~r1.ok
        THEN [ret |-> Raised, cache |-> c, chats |-> 1, trace |-> <<>>]
        ELSE [ret |-> Value(r1.text), cache |-> CacheSet(c, messages, r1.text),
              chats |-> 1, trace |-> <<>>]

\* Inputs: the system prompt of rank_files and that of parse_requirements,
\* one user prompt, and the responses the model may give.
SysRank == <<"a">>
SysParse == <<"x">>
Systems == {SysRank, SysParse}
Users == {<<"a">>}
ReplyTexts ==
    { <<"OBJ_SCORE_9">>,
      <<"J", "LF", "OBJ_SCORE_5", "LF", "F">>,
      <<"x", "s", "OBJ_SCORE_1", "s", "x">>,
      <<"[", "OBJ_SCORE_9", "]">>,
      <<"q", "a", "q">>,
      <<"{", "x", "}">>,
      <<"}", "{">>,
      <<"x", "CR", "LF", "x">> }
Replies == {Reply(t) : t \in ReplyTexts} \cup {ChatRaises}
RewriteTexts == { <<"OBJ_SCORE_9">>, <<"{", "x", "}">>, <<"x", "CR", "LF", "x">> }
RewriteReplies == {Reply(t) : t \in RewriteTexts} \cup {ChatRaises}

NoCall == [fn |-> "none", system |-> <<>>, user |-> <<>>, r1 |-> NotAsked,
           r2 |-> NotAsked, ret |-> Raised, chats |-> 0, trace |-> <<>>,
           prior |-> None]

InitJsonVars ==
    /\ last = NoCall
    /\ answered = EmptyDir

Prior(fn, system, user) ==
    IF <<fn, system, user>> \in DOMAIN answered
    THEN Some(answered[<<fn, system, user>>]) ELSE None

\* Bookkeeping common to both functions: res is what the call did.
Record(fn, system, user, r1, r2, res) ==
    /\ cache' = res.cache
    /\ last' = [fn |-> fn, system |-> system, user |-> user,
                r1 |-> IF res.chats >= 1 THEN r1 ELSE NotAsked,
                r2 |-> IF res.chats >= 2 THEN r2 ELSE NotAsked,
                ret |-> res.ret, chats |-> res.chats, trace |-> res.trace,
                prior |-> Prior(fn, system, user)]
    /\ answered' =
         IF res.ret.kind = "value" /\ <<fn, system, user>> \notin DOMAIN answered
         THEN [k \in DOMAIN answered \cup {<<fn, system, user>>} |->
                  IF k = <<fn, system, user>> THEN res.ret.val ELSE answered[k]]
         ELSE answered

LlmJsonCall(system, user, r1, r2) ==
    Record("llm_json", system, user, r1, r2, LlmJson(cache, system, user, r1, r2))

LlmRewriteCall(system, user, r1) ==
    Record("llm_rewrite", system, user, r1, NotAsked, LlmRewrite(cache, system, user, r1))

\* The repair response is an input only of the calls that ask for it.
SecondReplies(c, system, user, r1) ==
    IF LlmJson(c, system, user, r1, ChatRaises).chats = 2 THEN Replies ELSE {NotAsked}

LlmJsonStep ==
    /\ \E system \in Systems, user \in Users, r1 \in Replies :
          \E r2 \in SecondReplies(cache, system, user, r1) :
              LlmJsonCall(system, user, r1, r2)
    /\ UNCHANGED <<chatVars, shadow, sets, lastGet, rk, docVars, extVars>>
LlmRewriteStep ==
    /\ \E system \in Systems, user \in Users, r1 \in RewriteReplies :
          LlmRewriteCall(system, user, r1)
    /\ UNCHANGED <<chatVars, shadow, sets, lastGet, rk, docVars, extVars>>

\* ------------------------------------------------------------------------
\* rank_files (src/kb_search.py)
\* ------------------------------------------------------------------------
MaxFiles == 3
NReadable == 2
\* Files 1..NReadable can be read; file 0 is one whose read_text raises.
FileNames == 0..NReadable
Readable(file) == file \in 1..NReadable

\* The user prompt built for a file: its name and snippet make it differ
\* from file to file.
UserOf(file) == [i \in 1..file |-> "a"]

\* float(data.get("score", 0.0)), in tenths; -1 stands for the AttributeError
\* raised when data is no dict.
ScoreOf(data) ==
    CASE data = <<"OBJ_SCORE_0">> -> 0
      [] data = <<"OBJ_SCORE_1">> -> 1
      [] data = <<"OBJ_SCORE_5">> -> 5
      [] data = <<"OBJ_SCORE_9">> -> 9
      [] TypeOf(data) # "dict" -> -1
      [] OTHER -> 0

\* scores.sort(key=lambda x: x[1], reverse=True): stable, so entries with
\* equal scores keep their order.
InsertBeforeEqual(sorted, e) ==
    LET n == Cardinality({i \in 1..Len(sorted) : sorted[i].score > e.score})
    IN  SubSeq(sorted, 1, n) \o <<e>> \o SubSeq(sorted, n + 1, Len(sorted))
InsertDesc(sorted, e) ==
    LET n == Cardinality({i \in 1..Len(sorted) : sorted[i].score >= e.score})
    IN  SubSeq(sorted, 1, n) \o <<e>> \o SubSeq(sorted, n + 1, Len(sorted))
RECURSIVE SortDescFrom(_, _)
SortDescFrom(sorted, rest) ==
    IF rest = <<>> THEN sorted
    ELSE SortDescFrom(InsertDesc(sorted, Head(rest)), Tail(rest))
SortDesc(scores) == SortDescFrom(<<>>, scores)

\* scores[:topk]
SliceTo(seq, topk) ==
    IF topk >= 0
    THEN SubSeq(seq, 1, IF topk < Len(seq) THEN topk ELSE Len(seq))
    ELSE SubSeq(seq, 1, IF Len(seq) + topk > 0 THEN Len(seq) + topk ELSE 0)

\* "scores.sort(...); return scores[:topk]"
RankResult(scores, topk) == SliceTo(SortDesc(scores), topk)

\* The responses the model gives to a scoring request and to its repair.
RankReplies ==
    { Reply(<<"OBJ_SCORE_9">>), Reply(<<"J", "LF", "OBJ_SCORE_5", "LF", "F">>),
      Reply(<<"x">>), Reply(<<"[", "OBJ_SCORE_9", "]">>), ChatRaises }
RankRepairs ==
    { Reply(<<"x", "s", "OBJ_SCORE_1", "s", "x">>), Reply(<<"x">>), ChatRaises }
RankSecondReplies(c, user, r1) ==
    IF LlmJson(c, SysRank, user, r1, ChatRaises).chats = 2 THEN RankRepairs ELSE {NotAsked}

InitRankVars ==
    rk = [pc |-> "idle", files |-> <<>>, topk |-> 0,
          use_llm |-> TRUE, i |-> 1, scores |-> <<>>, result |-> <<>>]

\* After the loop body ran for position rk.i with the given scores: go on
\* with the next file, or sort, cut and return after the last one.
Advance(r, scores) ==
    IF r.i >= Len(r.files)
    THEN [r EXCEPT !.pc = "done", !.i = r.i + 1, !.scores = scores,
                   !.result = RankResult(scores, r.topk)]
    ELSE [r EXCEPT !.i = r.i + 1, !.scores = scores]

\* rank_files is called.
RankBegin(files, topk, use_llm) ==
    /\ rk.pc = "idle"
    /\ rk' = IF files = <<>>
             THEN [rk EXCEPT !.pc = "done", !.topk = topk, !.use_llm = use_llm,
                             !.result = RankResult(<<>>, topk)]
             ELSE [rk EXCEPT !.pc = "loop", !.files = files,
                             !.topk = topk, !.use_llm = use_llm]
    /\ UNCHANGED cache

\* One iteration of "for path in files".
RankFile(r1, r2) ==
    /\ rk.pc = "loop"
    /\ LET file == rk.files[rk.i]
           res == LlmJson(cache, SysRank, UserOf(file), r1, r2)
       IN  IF ~Readable(file)
           THEN /\ rk' = Advance(rk, rk.scores)
                /\ UNCHANGED cache
           ELSE IF ~rk.use_llm
           THEN /\ rk' = [rk EXCEPT !.pc = "raised"]
                /\ UNCHANGED cache
           ELSE /\ cache' = res.cache
                /\ rk' = IF res.ret.kind = "raise" \/ ScoreOf(res.ret.val) < 0
                         THEN [rk EXCEPT !.pc = "raised"]
                         ELSE Advance(rk, Append(rk.scores,
                                  [pos |-> rk.i, file |-> file,
                                   score |-> ScoreOf(res.ret.val)]))

RankBeginStep ==
    /\ \E n \in 0..MaxFiles, topk \in (-1)..(MaxFiles + 1), use_llm \in BOOLEAN :
          \E files \in [1..n -> FileNames] :
              RankBegin(files, topk, use_llm)
    /\ UNCHANGED <<chatVars, shadow, sets, lastGet, jsonVars, docVars, extVars>>
RankFileStep ==
    /\ rk.pc = "loop"
    /\ \E r1 \in RankReplies :
          \E r2 \in RankSecondReplies(cache, UserOf(rk.files[rk.i]), r1) :
              RankFile(r1, r2)
    /\ UNCHANGED <<chatVars, shadow, sets, lastGet, jsonVars, docVars, extVars>>

\* ------------------------------------------------------------------------
\* merge_contents (src/content_merge.py)
\* Further tokens: "#" the hash sign, "NEWPAGE" the text \newpage,
\* "PH_PRE" / "PH_POST" the fixed text before / after the title in the
\* placeholder sentence, "REQ_LABEL" / "SRC_LABEL" the labels of the user
\* prompt, "SYS_MERGE" the text of the system prompt, "DEFAULT_REQ" the title of the
\* default requirement and "DEFAULT_TITLE" the section title it is given.
\* A path is written as the string str(path) gives for it.
\* ------------------------------------------------------------------------
\* str.join
RECURSIVE Join(_, _)
Join(ss, sep) ==
    IF ss = <<>> THEN <<>>
    ELSE IF Len(ss) = 1 THEN Head(ss)
    ELSE Head(ss) \o sep \o Join(Tail(ss), sep)

\* The knowledge-base files: "f0" cannot be read, the others hold these bytes.
MergeFiles == {"f0", "f1", "f2", "f3"}
CanRead(path) == path # "f0"
FileBytes(path) ==
    CASE path = "f1" -> <<"s", "a", "CR", "LF">>
      [] path = "f2" -> <<"x", "LF", "NEWPAGE", "LF">>
      [] path = "f3" -> <<"s", "LF">>
      [] OTHER       -> <<>>

\* Lines 82-88: the stripped texts of the candidates that can be read.
RECURSIVE Snippets(_)
Snippets(files) ==
    IF files = <<>> THEN <<>>
    ELSE IF CanRead(Head(files)[1])
    THEN <<Strip(ReadText(FileBytes(Head(files)[1])))>> \o Snippets(Tail(files))
    ELSE Snippets(Tail(files))

\* Line 83
Candidates(files) ==
    [k \in 1..Len(files) |-> [path |-> files[k][1], score |-> files[k][2]]]
\* Line 130
Selected(files) == [k \in 1..Len(files) |-> files[k][1]]

\* Lines 91-92
Placeholder(title) == <<"PH_PRE">> \o title \o <<"PH_POST">>
PlaceholderSection(title) ==
    <<"#", "#", "s">> \o title \o <<"LF", "LF">> \o Placeholder(title) \o <<"LF">>

\* Line 95
Context(snippets) == Join(snippets, <<"LF", "LF">>)

\* Lines 99-112.  The parentheses of lines 99-111 end in a comma: system is a
\* tuple that holds the prompt.
MergeSystem == <<"TUPLE", "SYS_MERGE">>
MergeUser(title, context) ==
    <<"REQ_LABEL">> \o title \o <<"LF", "LF", "SRC_LABEL", "LF">> \o context

\* Lines 121-122
EndsWithNewpage(t) == t # <<>> /\ t[Len(t)] = "NEWPAGE"
WithNewpageAlways(merged) == RStrip(merged) \o <<"LF", "NEWPAGE">>
WithNewpage(merged) ==
    IF EndsWithNewpage(Strip(merged)) THEN merged
    ELSE RStrip(merged) \o <<"LF", "NEWPAGE">>

\* Lines 124-127
SectionTitle(title) ==
    IF title = <<"DEFAULT_REQ">> THEN <<"DEFAULT_TITLE">> ELSE title
\* Line 129
SectionMd(title, merged) ==
    <<"#", "s">> \o SectionTitle(title) \o <<"LF", "LF">> \o merged \o <<"LF">>

\* "if not snippets" (line 90)
NoSnippetsByFiles(files) == files = <<>>
NoSnippets(files) == Snippets(files) = <<>>

\* Lines 97-117: the text llm_rewrite returned, or the joined snippets when
\* the call raised.
MergedNoFallback(res, context) == res.ret.val
Merged(res, context) == IF res.ret.kind = "value" THEN res.ret.val ELSE context

\* One round of the loop over the requirements (lines 77-140).
\* c: the cache, r1: what client.chat answers if it is asked.
NoSelection == [some |-> FALSE, paths |-> <<>>]
MergeOne(c, req, ranked, use_llm, r1) ==
    LET files == IF req.id \in DOMAIN ranked THEN ranked[req.id] ELSE <<>>
        context == Context(Snippets(files))
        res == LlmRewrite(c, MergeSystem, MergeUser(req.title, context), r1)
        item(selected, outline) ==
            [title |-> req.title, candidates |-> Candidates(files),
             selected |-> selected, outline |-> outline]
    IN  IF NoSnippets(files)
        THEN [section |-> PlaceholderSection(req.title),
              item |-> item(NoSelection, FALSE),
              cache |-> c, chats |-> 0, gets |-> 0, puts |-> 0]
        ELSE IF use_llm
        THEN [section |-> SectionMd(req.title, WithNewpage(Merged(res, context))),
              item |-> item([some |-> TRUE, paths |-> Selected(files)],
                            res.ret.kind = "value"),
              cache |-> res.cache, chats |-> res.chats, gets |-> 1,
              puts |-> IF res.ret.kind = "value" /\ res.chats = 1 THEN 1 ELSE 0]
        ELSE [section |-> SectionMd(req.title, WithNewpage(context)),
              item |-> item([some |-> TRUE, paths |-> Selected(files)], FALSE),
              cache |-> c, chats |-> 0, gets |-> 0, puts |-> 0]

\* Inputs of merge_contents.
ReqA == [id |-> "r1", title |-> <<"a">>]
ReqX == [id |-> "r2", title |-> <<"x">>]
ReqDefault == [id |-> "r3", title |-> <<"DEFAULT_REQ">>]
ReqAgain == [id |-> "r1", title |-> <<"x">>]
RequirementLists ==
    { <<>>, <<ReqA>>, <<ReqA, ReqX>>, <<ReqX, ReqA>>, <<ReqA, ReqDefault>>,
      <<ReqA, ReqAgain>>, <<ReqX, ReqDefault, ReqA>> }
Ranked(files) == [k \in 1..Len(files) |-> <<files[k], "0.9">>]
RankedMaps ==
    { EmptyDir,
      [id \in {"r1"} |-> Ranked(<<"f1">>)],
      [id \in {"r1", "r2"} |-> IF id = "r1" THEN Ranked(<<"f0">>) ELSE Ranked(<<"f1", "f2">>)],
      [id \in {"r1", "r2"} |-> IF id = "r1" THEN Ranked(<<"f2", "f1">>) ELSE <<>>],
      [id \in {"r1", "r3"} |-> IF id = "r1" THEN Ranked(<<"f0", "f1">>) ELSE Ranked(<<"f2">>)],
      [id \in {"r1", "r2", "r3"} |->
          IF id = "r1" THEN Ranked(<<"f3">>)
          ELSE IF id = "r2" THEN Ranked(<<"f1", "f3">>) ELSE Ranked(<<"f1", "f0", "f2">>)] }
MergeReplies == {Reply(<<"x">>), Reply(<<"x", "LF", "NEWPAGE", "s">>), ChatRaises}
\* The cache directory the call finds: empty, or holding the answer to the
\* prompt made for ReqA and the file f1.
MergeCaches ==
    { EmptyDir,
      CacheSet(EmptyDir, MsgSU(MergeSystem, MergeUser(<<"a">>, <<"a">>)), <<"a", "a">>) }

InitMergeVars ==
    mg = [pc |-> "idle", reqs |-> <<>>, ranked |-> EmptyDir, use_llm |-> FALSE,
          i |-> 1, sections |-> <<>>, meta |-> EmptyDir, rounds |-> <<>>,
          result |-> <<>>]

\* Lines 70-76
MergeBegin(reqs, ranked, use_llm) ==
    /\ mg.pc = "idle"
    /\ mg' = [pc |-> IF reqs = <<>> THEN "done" ELSE "loop", reqs |-> reqs,
              ranked |-> ranked, use_llm |-> use_llm, i |-> 1,
              sections |-> <<>>, meta |-> EmptyDir, rounds |-> <<>>,
              result |-> <<>>]
    /\ UNCHANGED cache

\* Lines 77-143: one requirement, and the return after the last one.
\* rounds observes, per requirement, the requests and cache accesses made.
MergeReq(r1) ==
    /\ mg.pc = "loop"
    /\ LET req == mg.reqs[mg.i]
           one == MergeOne(cache, req, mg.ranked, mg.use_llm, r1)
           sections == Append(mg.sections, one.section)
           last_one == mg.i = Len(mg.reqs)
       IN  /\ cache' = one.cache
           /\ mg' = [mg EXCEPT
                  !.i = mg.i + 1,
                  !.sections = sections,
                  !.meta = [id \in DOMAIN mg.meta \cup {req.id} |->
                               IF id = req.id THEN one.item ELSE mg.meta[id]],
                  !.rounds = Append(mg.rounds,
                                 [chats |-> one.chats, gets |-> one.gets,
                                  puts |-> one.puts, before |-> cache]),
                  !.pc = IF last_one THEN "done" ELSE "loop",
                  !.result = IF last_one THEN Join(sections, <<"LF">>) ELSE <<>>]

\* What client.chat answers is an input only of the rounds that ask it.
MergeAnswers(c, req, ranked, use_llm) ==
    IF MergeOne(c, req, ranked, use_llm, ChatRaises).chats = 1
    THEN MergeReplies ELSE {NotAsked}

MergeBeginStep ==
    /\ \E reqs \in RequirementLists, ranked \in RankedMaps, use_llm \in BOOLEAN :
          MergeBegin(reqs, ranked, use_llm)
    /\ UNCHANGED <<chatVars, shadow, sets, lastGet, jsonVars, rk, lx, cp, pj, ol, extVars>>
MergeReqStep ==
    /\ mg.pc = "loop"
    /\ \E r1 \in MergeAnswers(cache, mg.reqs[mg.i], mg.ranked, mg.use_llm) :
          MergeReq(r1)
    /\ UNCHANGED <<chatVars, shadow, sets, lastGet, jsonVars, rk, lx, cp, pj, ol, extVars>>

\* ------------------------------------------------------------------------
\* latex_renderer.py
\* LaTeX and Markdown texts are spelt: a command is the backslash "b", its
\* name and its braces, each a token.  Further tokens: the names "begin"
\* "end" "itemize" "item" "section" "subsection" "subsubsection" "vspace"
\* "hrule" "tabular" "hline" "documentclass" "usepackage" "document" "geq"
\* "leq" and the words "json" "0.5cm"; the letters "tex", and the letters
\* that follow them in a name: "tbf" "ttt" "tbackslash" "tasciitilde"
\* "tasciicircum", so that \textbf is "b" "tex" "tbf" and the word latex is
\* "l" "a" "tex"; the characters "#" "&" "%" "$" "_" "~" "^" ">" "<" "l" "|"
\* "-" ":" "*" themselves, "TICK" the backquote, "GE" and "LE" the signs
\* for "at least" and "at most".  No text is spelt in two ways, and no
\* operation of the code cuts a token.  "SYS_LATEX" is the system prompt and
\* "CONVERT_LABEL" the first line of the user prompt of markdown_to_latex.
\* ------------------------------------------------------------------------
\* The backquotes of the fence tokens, one by one.
TickToken(ch) ==
    CASE ch = "F" -> <<"TICK", "TICK", "TICK">>
      [] ch = "J" -> <<"TICK", "TICK", "TICK", "json">>
      [] OTHER -> <<ch>>
Ticks(t) == Concat([k \in 1..Len(t) |-> TickToken(t[k])])

\* The commands the code writes and looks for.
BeginItemize == <<"b", "begin", "{", "itemize", "}">>
EndItemize == <<"b", "end", "{", "itemize", "}">>
BeginDocument == <<"b", "begin", "{", "document", "}">>
EndDocument == <<"b", "end", "{", "document", "}">>
BeginTabular == <<"b", "begin", "{", "tabular", "}", "{">>
EndTabular == <<"b", "end", "{", "tabular", "}">>
Hline == <<"b", "hline">>
Vspace == <<"b", "vspace", "{", "0.5cm", "}">>
TextBackslash == <<"b", "tex", "tbackslash", "{", "}">>
\* "\name{"
Opening(name) == <<"b", name, "{">>
Textbf == <<"b", "tex", "tbf", "{">>
Texttt == <<"b", "tex", "ttt", "{">>

\* str.split('\n')
RECURSIVE SplitLines(_)
SplitLines(t) ==
    IF \E k \in 1..Len(t) : t[k] = "LF"
    THEN LET k == CHOOSE k \in 1..Len(t) : t[k] = "LF" /\ \A j \in 1..(k - 1) : t[j] # "LF"
         IN  <<SubSeq(t, 1, k - 1)>> \o SplitLines(SubSeq(t, k + 1, Len(t)))
    ELSE <<t>>

\* "word in line", str.count(word)
Contains(t, tok) == \E k \in 1..Len(t) : t[k] = tok
Count(t, tok) == Cardinality({k \in 1..Len(t) : t[k] = tok})
\* "sub in line" for a text sub
Occurrences(t, sub) == {k \in 1..(Len(t) - Len(sub) + 1) : SubSeq(t, k, k + Len(sub) - 1) = sub}
HasSub(t, sub) == Occurrences(t, sub) # {}

\* str.startswith
StartsWith(t, prefix) ==
    Len(t) >= Len(prefix) /\ SubSeq(t, 1, Len(prefix)) = prefix
EndsWith(t, suffix) ==
    Len(t) >= Len(suffix) /\ SubSeq(t, Len(t) - Len(suffix) + 1, Len(t)) = suffix
\* line.startswith('\\item'): the name that follows the backslash begins
\* with "item".
StartsWithItem(line) == Len(line) >= 2 /\ line[1] = "b" /\ line[2] \in {"item", "itemize"}

\* "while itemize_stack: append('\\end{itemize}'); pop()"
CloseAll(itemize_stack) == [k \in 1..itemize_stack |-> EndItemize]

SectionCommands == {"section", "subsection", "subsubsection"}

\* _fix_itemize_environments, lines 70-102.  itemize_stack holds only True
\* values, so it is represented by its length.
RECURSIVE FixLines(_, _, _)
FixLines(lines, itemize_stack, fixed_lines) ==
    IF lines = <<>> THEN fixed_lines \o CloseAll(itemize_stack)
    ELSE LET line == Strip(Head(lines))
             rest == Tail(lines)
         IN  IF line = <<>>
             THEN FixLines(rest, itemize_stack, Append(fixed_lines, <<>>))
             ELSE IF HasSub(line, BeginItemize)
             THEN FixLines(rest, itemize_stack + 1, Append(fixed_lines, line))
             ELSE IF HasSub(line, EndItemize)
             THEN FixLines(rest, IF itemize_stack > 0 THEN itemize_stack - 1 ELSE 0,
                           Append(fixed_lines, line))
             ELSE IF StartsWithItem(line)
             THEN IF itemize_stack = 0
                  THEN FixLines(rest, 1, fixed_lines \o <<BeginItemize, line>>)
                  ELSE FixLines(rest, itemize_stack, Append(fixed_lines, line))
             ELSE IF \E name \in SectionCommands : StartsWith(line, Opening(name))
             THEN FixLines(rest, 0, (fixed_lines \o CloseAll(itemize_stack)) \o <<line>>)
             ELSE FixLines(rest, itemize_stack, Append(fixed_lines, line))

\* _fix_itemize_environments
FixItemizeEnvironments(latex) == Join(FixLines(SplitLines(Ticks(latex)), 0, <<>>), <<"LF">>)

\* _escape_latex.  The ten replacements run one after the other and the
\* backslash comes last, so the backslash an earlier replacement put before
\* a character is itself replaced by \textbackslash{}.
EscapeToken(ch) ==
    CASE ch \in {"&", "%", "$", "#", "_", "{", "}"} -> TextBackslash \o <<ch>>
      [] ch = "~" -> TextBackslash \o <<"tex", "tasciitilde", "{", "}">>
      [] ch = "^" -> TextBackslash \o <<"tex", "tasciicircum", "{", "}">>
      [] ch = "b" -> TextBackslash
      [] OTHER -> <<ch>>
EscapeLatex(text) == Concat([k \in 1..Len(text) |-> EscapeToken(text[k])])

\* Lines 168-169: the order signs are set in math mode.
RelationToken(ch) ==
    CASE ch = "GE" -> <<"$", "b", "geq", "$">>
      [] ch = "LE" -> <<"$", "b", "leq", "$">>
      [] ch = ">" -> <<"$", ">", "$">>
      [] ch = "<" -> <<"$", "<", "$">>
      [] OTHER -> <<ch>>
Relations(text) == Concat([k \in 1..Len(text) |-> RelationToken(text[k])])

\* str.replace(pair, ''): the occurrences are taken from the left and do
\* not overlap.
RECURSIVE RemovePairs(_, _)
RemovePairs(text, ch) ==
    IF Len(text) < 2 THEN text
    ELSE IF text[1] = ch /\ text[2] = ch THEN RemovePairs(SubSeq(text, 3, Len(text)), ch)
    ELSE <<text[1]>> \o RemovePairs(Tail(text), ch)
\* ".replace('{{', '').replace('}}', '')" (lines 157 and 170)
DropDoubleBraces(text) == RemovePairs(RemovePairs(text, "{"), "}")

\* "ln.strip('|').split('|')" with each cell stripped (line 185)
RECURSIVE StripBars(_)
StripBars(t) ==
    IF t # <<>> /\ Head(t) = "|" THEN StripBars(Tail(t))
    ELSE IF t # <<>> /\ t[Len(t)] = "|" THEN StripBars(SubSeq(t, 1, Len(t) - 1))
    ELSE t
RECURSIVE SplitBars(_)
SplitBars(t) ==
    IF \E k \in 1..Len(t) : t[k] = "|"
    THEN LET k == CHOOSE k \in 1..Len(t) : t[k] = "|" /\ \A j \in 1..(k - 1) : t[j] # "|"
         IN  <<SubSeq(t, 1, k - 1)>> \o SplitBars(SubSeq(t, k + 1, Len(t)))
    ELSE <<t>>
Cells(ln) ==
    LET parts == SplitBars(StripBars(ln))
    IN  [k \in 1..Len(parts) |-> Strip(parts[k])]

\* Line 188: every cell of the row is made of "-" and ":" only.
IsSeparatorRow(row) ==
    \A k \in 1..Len(row) : \A j \in 1..Len(row[k]) : row[k][j] \in {"-", ":"}

\* "' & '.join(_escape_latex(c) for c in row) + r' \\'"
TableRow(row) ==
    Join([k \in 1..Len(row) |-> EscapeLatex(row[k])], <<"s", "&", "s">>)
    \o <<"s", "b", "b">>

\* _markdown_table_to_latex
MarkdownTableToLatex(lines) ==
    LET rows == [k \in 1..Len(lines) |-> Cells(lines[k])]
        header == rows[1]
        body == IF Len(rows) >= 2 /\ IsSeparatorRow(rows[2])
                THEN SubSeq(rows, 3, Len(rows)) ELSE SubSeq(rows, 2, Len(rows))
        col_spec == Join([k \in 1..Len(header) |-> <<"l">>], <<"s", "|", "s">>)
    IN  << BeginTabular \o col_spec \o <<"}">>, Hline, TableRow(header), Hline >>
        \o Concat([k \in 1..Len(body) |-> <<TableRow(body[k]), Hline>>])
        \o << EndTabular >>

\* Lines 128-130: the table lines from position i on.
RECURSIVE TableLines(_, _)
TableLines(lines, i) ==
    IF i <= Len(lines) /\ StartsWith(Strip(lines[i]), <<"|">>)
    THEN <<Strip(lines[i])>> \o TableLines(lines, i + 1)
    ELSE <<>>

\* Lines 135-171: what one line that is not blank and opens no table adds
\* to latex_lines, the itemize environments that must be closed or opened
\* before it included.
ConvertLine(line, itemize_stack) ==
    IF StartsWith(line, <<"#", "s">>)
    THEN CloseAll(itemize_stack)
         \o << Opening("section") \o SubSeq(line, 3, Len(line)) \o <<"}">> >>
    ELSE IF StartsWith(line, <<"#", "#", "s">>)
    THEN CloseAll(itemize_stack)
         \o << Opening("subsection") \o SubSeq(line, 4, Len(line)) \o <<"}">> >>
    ELSE IF StartsWith(line, <<"#", "#", "#", "s">>)
    THEN CloseAll(itemize_stack)
         \o << Opening("subsubsection") \o SubSeq(line, 5, Len(line)) \o <<"}">> >>
    ELSE IF StartsWith(line, <<"-", "s">>)
    THEN (IF itemize_stack = 0 THEN << BeginItemize >> ELSE <<>>)
         \o << <<"b", "item", "s">> \o SubSeq(line, 3, Len(line)) >>
    ELSE IF StartsWith(line, <<"*", "*">>) /\ EndsWith(line, <<"*", "*">>)
    THEN << Textbf \o DropDoubleBraces(SubSeq(line, 3, Len(line) - 2)) \o <<"}">> >>
    ELSE IF StartsWith(line, <<"TICK">>) /\ EndsWith(line, <<"TICK">>)
    THEN << Texttt \o SubSeq(line, 2, Len(line) - 1) \o <<"}">> >>
    ELSE IF line = <<"-", "-", "-">>
    THEN << Vspace, <<"b", "hrule">>, Vspace >>
    ELSE << DropDoubleBraces(Relations(EscapeLatex(line))) >>

\* The length of itemize_stack after that line.
StackAfter(line, itemize_stack) ==
    IF \/ StartsWith(line, <<"#", "s">>) \/ StartsWith(line, <<"#", "#", "s">>)
       \/ StartsWith(line, <<"#", "#", "#", "s">>)
    THEN 0
    ELSE IF StartsWith(line, <<"-", "s">>) /\ itemize_stack = 0 THEN 1
    ELSE itemize_stack

\* _simple_markdown_to_latex, lines 113-176
RECURSIVE SimpleLines(_, _, _, _)
SimpleLines(lines, i, itemize_stack, latex_lines) ==
    IF i > Len(lines) THEN latex_lines \o CloseAll(itemize_stack)
    ELSE LET line == Strip(lines[i])
         IN  IF line = <<>>
             THEN SimpleLines(lines, i + 1, itemize_stack, Append(latex_lines, <<>>))
             ELSE IF Head(line) = "|" /\ Contains(Tail(line), "|")
             THEN SimpleLines(lines, i + Len(TableLines(lines, i)), 0,
                              (latex_lines \o CloseAll(itemize_stack))
                              \o MarkdownTableToLatex(TableLines(lines, i)))
             ELSE SimpleLines(lines, i + 1, StackAfter(line, itemize_stack),
                              latex_lines \o ConvertLine(line, itemize_stack))

\* _simple_markdown_to_latex
SimpleMarkdownToLatex(markdown) ==
    Join(SimpleLines(SplitLines(Ticks(markdown)), 1, 0, <<>>), <<"LF">>)

\* markdown_to_latex, lines 37-44: the cleaning of the answer.
Fence == <<"TICK", "TICK", "TICK">>
CleanAnswer(answer) ==
    LET t1 == Strip(Ticks(answer))
        t2 == IF StartsWith(t1, Fence \o <<"l", "a", "tex">>)
              THEN SubSeq(t1, 7, Len(t1)) ELSE t1
        t3 == IF StartsWith(t2, Fence) THEN SubSeq(t2, 4, Len(t2)) ELSE t2
        t4 == IF EndsWith(t3, Fence) THEN SubSeq(t3, 1, Len(t3) - 3) ELSE t3
    IN  Strip(t4)

\* Lines 47-54
StructureCommands == {<<"b", "documentclass">>, <<"b", "usepackage">>, BeginDocument, EndDocument}
DropStructure(latex) ==
    IF HasSub(latex, <<"b", "documentclass">>) \/ HasSub(latex, BeginDocument)
    THEN Join(SelectSeq(SplitLines(latex),
                        LAMBDA line : \A c \in StructureCommands : ~HasSub(line, c)),
              <<"LF">>)
    ELSE latex

LatexSystem == <<"SYS_LATEX">>
LatexUser(markdown) == <<"CONVERT_LABEL", "LF", "LF">> \o markdown

\* markdown_to_latex.  c: the cache, r1: what client.chat answers if asked.
MarkdownToLatex(c, markdown, use_llm, r1) ==
    LET res == LlmRewrite(c, LatexSystem, LatexUser(markdown), r1)
    IN  IF use_llm
        THEN IF res.ret.kind = "raise"
             THEN [ret |-> Raised, cache |-> res.cache, chats |-> res.chats, gets |-> 1]
             ELSE [ret |-> Value(FixItemizeEnvironments(
                                     DropStructure(CleanAnswer(res.ret.val)))),
                   cache |-> res.cache, chats |-> res.chats, gets |-> 1]
        ELSE [ret |-> Value(SimpleMarkdownToLatex(markdown)), cache |-> c,
              chats |-> 0, gets |-> 0]

\* Inputs.  A text is made of up to MaxLines lines.
MaxLines == 3
LatexLines ==
    { BeginItemize, EndItemize, <<"b", "item", "s", "a">>,
      <<"s", "b", "item", "s", "a">>, Opening("section") \o <<"a", "}">>, <<"a">>, <<>>,
      BeginItemize \o <<"s", "b", "item", "s", "a", "s">> \o EndItemize }
MarkdownLines ==
    { <<"#", "s", "a">>, <<"#", "#", "s", "a">>, <<"-", "s", "a">>, <<"s", "-", "s", "x">>,
      <<"a", "#">>, <<>>, <<"|", "a", "|", "x", "|">>, <<"|", "-", "|", "-", "|">>,
      <<"#", "s">> \o BeginItemize, BeginItemize, <<"TICK", "b", "item", "TICK">>,
      <<"*", "*", "a", "*", "*">>, <<"-", "-", "-">>, <<"a", "}", ">">>,
      <<"*", "*", "{", "{", "a", "}", "*", "*">> }
TextsOf(lineSet) ==
    {Join(ls, <<"LF">>) : ls \in UNION {[1..n -> lineSet] : n \in 1..MaxLines}}
LatexTexts == TextsOf(LatexLines)
MarkdownTexts == TextsOf(MarkdownLines)
\* The calls of markdown_to_latex: a few documents and answers of the model.
Documents == { <<"#", "s", "a", "LF", "-", "s", "x">>, <<"a">> }
LatexReplies ==
    { Reply(<<"F", "l", "a", "tex", "LF">> \o Opening("section") \o <<"a", "}", "LF", "b", "item", "s", "x", "LF", "F">>),
      Reply(<<"b", "documentclass", "LF">> \o BeginDocument \o <<"LF", "a", "LF">> \o EndDocument),
      Reply(<<"a", "LF">> \o EndItemize),
      ChatRaises }

NoLatexCall == [fn |-> "none", input |-> <<>>, use_llm |-> FALSE, r1 |-> NotAsked,
                ret |-> Raised, chats |-> 0, gets |-> 0, before |-> EmptyDir]
InitLatexVars == lx = NoLatexCall

\* One call, of the function that takes the drawn input.
FixItemizeCall(latex) ==
    /\ lx.fn = "none"
    /\ lx' = [lx EXCEPT !.fn = "_fix_itemize_environments",
                        !.ret = Value(FixItemizeEnvironments(latex))]
    /\ UNCHANGED cache
SimpleMarkdownCall(markdown) ==
    /\ lx.fn = "none"
    /\ lx' = [lx EXCEPT !.fn = "_simple_markdown_to_latex",
                        !.ret = Value(SimpleMarkdownToLatex(markdown))]
    /\ UNCHANGED cache
\* markdown_to_latex may be called again on the same document.
MarkdownToLatexCall(markdown, use_llm, r1) ==
    LET res == MarkdownToLatex(cache, markdown, use_llm, r1)
    IN  /\ lx.fn \in {"none", "markdown_to_latex"}
        /\ lx' = [fn |-> "markdown_to_latex", input |-> markdown, use_llm |-> use_llm,
                  r1 |-> IF res.chats = 1 THEN r1 ELSE NotAsked, ret |-> res.ret,
                  chats |-> res.chats, gets |-> res.gets, before |-> cache]
        /\ cache' = res.cache
LatexAnswers(c, markdown, use_llm) ==
    IF MarkdownToLatex(c, markdown, use_llm, ChatRaises).chats = 1
    THEN LatexReplies ELSE {NotAsked}

FixItemizeStep ==
    /\ lx.input \in LatexTexts
    /\ FixItemizeCall(lx.input)
    /\ UNCHANGED <<chatVars, shadow, sets, lastGet, jsonVars, rk, mg, cp, pj, ol, extVars>>
SimpleMarkdownStep ==
    /\ lx.input \in MarkdownTexts
    /\ SimpleMarkdownCall(lx.input)
    /\ UNCHANGED <<chatVars, shadow, sets, lastGet, jsonVars, rk, mg, cp, pj, ol, extVars>>
MarkdownToLatexStep ==
    /\ lx.input \in Documents
    /\ \E use_llm \in BOOLEAN :
          \E r1 \in LatexAnswers(cache, lx.input, use_llm) :
              MarkdownToLatexCall(lx.input, use_llm, r1)
    /\ UNCHANGED <<chatVars, shadow, sets, lastGet, jsonVars, rk, mg, cp, pj, ol, extVars>>

\* ------------------------------------------------------------------------
\* compile_pdf (src/pdf_builder.py) and the build log (src/logging_utils.py)
\* ------------------------------------------------------------------------
\* The methods in the order of the source text; xelatex is run twice.
Methods == <<"xelatex", "pdflatex", "latexmk", "reportlab">>
MethodIndex(m) == CHOOSE k \in 1..Len(Methods) : Methods[k] = m
\* Where control goes when method m did not return: the next method, or the
\* final "raise RuntimeError" after the last one.
NextMethodSkipping(m) ==
    IF MethodIndex(m) + 2 <= Len(Methods) THEN Methods[MethodIndex(m) + 2] ELSE "raise"
NextMethod(m) ==
    IF MethodIndex(m) < Len(Methods) THEN Methods[MethodIndex(m) + 1] ELSE "raise"

\* What subprocess.run(..., check=True, capture_output=True) does: it returns
\* (exit status 0), or raises CalledProcessError carrying the captured
\* stdout and stderr, FileNotFoundError, UnicodeDecodeError, or another
\* OSError such as PermissionError.
RunOk == [kind |-> "ok", stdout |-> <<>>, stderr |-> <<>>]
RunFailed(stdout, stderr) == [kind |-> "CalledProcessError", stdout |-> stdout, stderr |-> stderr]
RunNotFound == [kind |-> "FileNotFoundError", stdout |-> <<>>, stderr |-> <<>>]
RunDecode == [kind |-> "UnicodeDecodeError", stdout |-> <<>>, stderr |-> <<>>]
RunOsError == [kind |-> "OSError", stdout |-> <<>>, stderr |-> <<>>]
RunOutcomes ==
    { RunOk, RunNotFound, RunDecode, RunOsError,
      RunFailed(<<"x">>, <<>>), RunFailed(<<"x">>, <<"a">>), RunFailed(<<>>, <<"a">>) }
\* The size of a file: it is not there, or it holds 0 bytes, 1 to 1000
\* bytes, or more than 1000 bytes.
Sizes == {"absent", "empty", "small", "big"}
\* What the process of an engine leaves in the work directory: nothing new
\* ("none"), the PDF named after the .tex file with the size given, or
\* another PDF of more than 1000 bytes ("other").
Writes == {"none", "empty", "small", "big", "other"}
\* What a look at the work directory finds after a run that returned: the
\* PDF named after the .tex file, not empty ("built"); the largest *.pdf,
\* of more than 1000 bytes ("other"); or neither ("none").
Found == {"built", "other", "none"}
\* Where out_pdf lies: it is the PDF the engines write, workdir/<stem>.pdf
\* ("same"), another *.pdf of the work directory ("workdir"), or a file of
\* another directory ("elsewhere").
Places == {"same", "workdir", "elsewhere"}
\* The file "max(pdf_files, key=size)" picks: out_pdf itself or another one.
Largest == {"out", "another"}
\* Path.rename moves the file, or raises OSError (out_pdf lies in another
\* file system).
Moves == {"ok", "OSError"}
\* The reportlab method: it saves the placeholder, or the import fails, or
\* something else raises.
ReportlabOutcomes == {"ok", "ImportError", "Exception"}

\* A record of the build log: logging_utils.get_logger attaches a file
\* handler of level DEBUG, so every record of the logger is written.
LogEntry(level, msg, text) == [level |-> level, msg |-> msg, text |-> text]
\* "logger.warning(f"... {exc.stderr}")"
FailureText(o) == o.stderr

\* The except clauses of one LaTeX method (lines 248-253, 287-292, 314-319).
Caught(o) == o.kind \in {"CalledProcessError", "FileNotFoundError", "UnicodeDecodeError"}
ExceptEntry(m, o) ==
    IF o.kind = "CalledProcessError" THEN LogEntry("warning", <<m, "failed">>, FailureText(o))
    ELSE IF o.kind = "FileNotFoundError" THEN LogEntry("warning", <<m, "not found">>, <<>>)
    ELSE LogEntry("warning", <<m, "encoding error">>, <<>>)

\* The files of a call.  out: a file exists at out_pdf, and size is its
\* size (old keeps what out was at the call); where: the place of out_pdf;
\* built: the size of workdir/<stem>.pdf, which is out_pdf itself when where
\* is "same"; other: the work directory holds one more PDF, of more than
\* 1000 bytes.
InitPdfVars ==
    cp = [pc |-> "idle", pass |-> 1, out |-> FALSE, old |-> FALSE, where |-> "elsewhere",
          size |-> "absent", built |-> "absent", other |-> FALSE,
          runs |-> <<>>, log |-> <<>>, result |-> "none"]

\* Lines 209-213.
Begun(size, built, other, where) ==
    [pc |-> "xelatex", pass |-> 1, out |-> size # "absent", old |-> size # "absent",
     where |-> where, size |-> size, built |-> built, other |-> other,
     runs |-> <<>>, log |-> <<LogEntry("info", <<"xelatex", "start">>, <<>>)>>,
     result |-> "none"]
CompileBegin(size, built, other, where) ==
    /\ cp.pc = "idle"
    /\ where = "same" => built = size
    /\ cp' = Begun(size, built, other, where)

\* Entering method m: its "logger.info" line, or the end of the function
\* (lines 342-343).
Enter(c, m) ==
    IF m = "raise"
    THEN [c EXCEPT !.pc = "done", !.result = "RuntimeError",
                   !.log = Append(@, LogEntry("error", <<"all", "failed">>, <<>>))]
    ELSE [c EXCEPT !.pc = m, !.pass = 1,
                   !.log = Append(@, LogEntry("info", <<m, "start">>, <<>>))]

\* A file of that size is now at out_pdf and compile_pdf returns.
Deliver(c, m, size) ==
    [c EXCEPT !.pc = "done", !.result = "returned", !.out = TRUE, !.size = size,
              !.built = IF c.where = "same" THEN size ELSE @,
              !.log = Append(@, LogEntry("info", <<m, "pdf">>, <<>>))]

\* The process of a run has written made.
Written(c, made) ==
    IF made = "none" THEN c
    ELSE IF made = "other" THEN [c EXCEPT !.other = TRUE]
    ELSE IF c.where = "same" THEN [c EXCEPT !.built = made, !.size = made, !.out = TRUE]
    ELSE [c EXCEPT !.built = made]

\* "pdf_files = list(workdir.glob("*.pdf"))": the files among which the
\* largest one exceeds 1000 bytes and can be the largest.  The PDF named
\* after the .tex file is absent or empty when the glob is made.
GlobCandidates(c) ==
    (IF c.where = "workdir" /\ c.size = "big" THEN {"out"} ELSE {})
    \cup (IF c.other THEN {"another"} ELSE {})
\* Lines 223-240, 265-282, 302-303: what method m finds.
PdfFound(c, m) ==
    IF c.built \in {"small", "big"} THEN "built"
    ELSE IF m # "latexmk" /\ GlobCandidates(c) # {} THEN "other"
    ELSE "none"

\* "if out_pdf.exists(): out_pdf.unlink()"
Unlinked(c) ==
    [c EXCEPT !.out = FALSE, !.size = "absent",
              !.built = IF c.where = "same" THEN "absent" ELSE @]
\* The file that was found has been renamed: it is no longer where it was.
Taken(c, found) ==
    IF found = "built" THEN [c EXCEPT !.built = "absent"] ELSE [c EXCEPT !.other = FALSE]

\* The PDF that was found is put at out_pdf (lines 226-231, 241-246, 268-273,
\* 283-288, 305-310) after out_pdf has been unlinked.  moved: what the
\* rename does; it raises FileNotFoundError when the file found is out_pdf
\* itself, which has just been unlinked, and the except clause of the method
\* takes that for a missing engine.  size: the size of the file found.
PutInPlaceReturning(c, m, moved, size) ==
    IF moved = "ok" THEN Deliver(c, m, size)
    ELSE [c EXCEPT !.pc = "done", !.result = "returned"]
PutInPlace(c, m, moved, size) ==
    IF moved = "ok" THEN Deliver(c, m, size)
    ELSE IF moved = "FileNotFoundError"
    THEN Enter([c EXCEPT !.log = Append(@, ExceptEntry(m, RunNotFound))], NextMethod(m))
    ELSE [c EXCEPT !.pc = "done", !.result = moved]

\* The process of the run has started: subprocess.run raises
\* FileNotFoundError or another OSError before it does.
Started(o) == o.kind \notin {"FileNotFoundError", "OSError"}
\* The run is followed by a look at the work directory.
Looked(c, o) == o.kind = "ok" /\ ~(c.pc = "xelatex" /\ c.pass = 1)
\* What that look finds.
FoundAfter(c, o, made) ==
    IF Looked(c, o) THEN PdfFound(Written(c, made), c.pc) ELSE "none"
\* The file found is out_pdf itself.
SourceIsOut(c, found, largest) ==
    \/ found = "built" /\ c.where = "same"
    \/ found = "other" /\ largest = "out"

\* One subprocess.run of a LaTeX method and what follows it up to the next
\* run: lines 215-253 (xelatex), 258-292 (pdflatex), 297-319 (latexmk).
\* c: the state of the call, o: what the run does, made: what its process
\* writes, largest: the file the glob picks, mv: what a rename to another
\* directory does.
AfterEngineRun(c, o, made, largest, mv) ==
    LET m == c.pc
        first_pass == m = "xelatex" /\ c.pass = 1
        w == IF Started(o) THEN Written(c, made) ELSE c
        found == FoundAfter(c, o, made)
        moved == IF found = "none" THEN "none"
                 ELSE IF SourceIsOut(c, found, largest) THEN "FileNotFoundError" ELSE mv
        size == IF found = "built" THEN w.built ELSE "big"
        c1 == [w EXCEPT !.runs = Append(@, [method |-> m, pass |-> c.pass, outcome |-> o,
                                            found |-> found, moved |-> moved])]
        c2 == [c1 EXCEPT !.log = Append(@, LogEntry("info", <<m, "run ok">>, <<>>))]
        c3 == [c2 EXCEPT !.log = Append(@, LogEntry("warning", <<m, "no pdf">>, <<>>))]
        put(c4) == PutInPlace(IF moved = "ok" THEN Taken(Unlinked(c4), found) ELSE Unlinked(c4),
                              m, moved, size)
    IN  IF o.kind = "ok"
        THEN IF first_pass THEN [c2 EXCEPT !.pass = 2]
             ELSE IF found = "built" THEN put(c2)
             ELSE IF found = "other"
             THEN put([c3 EXCEPT !.log = Append(@, LogEntry("info", <<m, "found pdf">>, <<>>))])
             ELSE Enter(c3, NextMethod(m))
        ELSE IF Caught(o)
        THEN Enter([c1 EXCEPT !.log = Append(@, ExceptEntry(m, o))], NextMethod(m))
        ELSE [c1 EXCEPT !.pc = "done", !.result = o.kind]

\* The inputs that can go together: a process that did not start writes
\* nothing; the largest file is one of those the glob can pick; a rename
\* raises OSError only towards another directory.
CanRun(c, o, made, largest, mv) ==
    LET found == FoundAfter(c, o, made)
        w == IF Started(o) THEN Written(c, made) ELSE c
    IN  /\ ~Started(o) => made = "none"
        /\ IF found = "other" THEN largest \in GlobCandidates(w) ELSE largest = "another"
        /\ mv = "OSError" =>
              /\ found # "none" /\ ~SourceIsOut(c, found, largest)
              /\ c.where = "elsewhere"
EngineRun(o, made, largest, mv) ==
    /\ cp.pc \in {"xelatex", "pdflatex", "latexmk"}
    /\ CanRun(cp, o, made, largest, mv)
    /\ cp' = AfterEngineRun(cp, o, made, largest, mv)

\* Lines 322-343: the placeholder PDF drawn with reportlab; size: the size
\* of the file canvas.save() writes.
AfterReportlab(c, o, size) ==
    LET c1 == [c EXCEPT !.runs = Append(@, [method |-> "reportlab", pass |-> 1,
                                            outcome |-> [kind |-> o, stdout |-> <<>>, stderr |-> <<>>],
                                            found |-> IF o = "ok" THEN "built" ELSE "none",
                                            moved |-> IF o = "ok" THEN "ok" ELSE "none"])]
    IN  IF o = "ok"
        THEN Deliver(c1, "reportlab", size)
        ELSE Enter([c1 EXCEPT !.log = Append(@, LogEntry("error", <<"reportlab", o>>, <<>>))],
                   NextMethod("reportlab"))
ReportlabRun(o, size) ==
    /\ cp.pc = "reportlab"
    /\ cp' = AfterReportlab(cp, o, size)

\* The calls drawn: the sizes of out_pdf at the call, the PDFs an engine
\* writes, the size of the placeholder.
OutSizes == {"absent", "empty", "small", "big"}
BuiltSizes == {"absent", "big"}
EngineWrites == {"none", "empty", "big", "other"}
PlaceholderSizes == {"small", "big"}
CompileBeginStep ==
    /\ \E size \in OutSizes, where \in Places :
          \E built \in BuiltSizes \cup {size} : CompileBegin(size, built, FALSE, where)
    /\ UNCHANGED <<chatVars, cacheVars, jsonVars, rk, mg, lx, pj, ol, extVars>>
EngineRunStep ==
    /\ \E o \in RunOutcomes, made \in EngineWrites, largest \in Largest, mv \in Moves :
          EngineRun(o, made, largest, mv)
    /\ UNCHANGED <<chatVars, cacheVars, jsonVars, rk, mg, lx, pj, ol, extVars>>
ReportlabRunStep ==
    /\ \E o \in ReportlabOutcomes, size \in PlaceholderSizes : ReportlabRun(o, size)
    /\ UNCHANGED <<chatVars, cacheVars, jsonVars, rk, mg, lx, pj, ol, extVars>>

\* ------------------------------------------------------------------------
\* format_bid_date and apply_project_config (src/pdf_builder.py)
\* Further tokens: the digits "0" ... "9", "/", and "YEAR" "MONTH" "DAY" for
\* the characters 年 月 日.
\* ------------------------------------------------------------------------
DigitChars == <<"0", "1", "2", "3", "4", "5", "6", "7", "8", "9">>
IsDigit(ch) == \E k \in 1..10 : DigitChars[k] = ch
DigitValue(ch) == (CHOOSE k \in 1..10 : DigitChars[k] = ch) - 1
At(value, p) == IF p \in 1..Len(value) THEN value[p] ELSE "END"

\* The directives of datetime.strptime, as the regular expressions of
\* _strptime: %Y is four digits, %m is 1[0-2]|0[1-9]|[1-9], %d is
\* 3[01]|[12]\d|0[1-9]|[1-9]| [1-9].  Each gives the number of tokens it
\* takes at position p (0: no match).
YearWidth(value, p) ==
    IF \A k \in p..(p + 3) : IsDigit(At(value, k)) THEN 4 ELSE 0
MonthWidth(value, p) ==
    IF At(value, p) = "1" /\ At(value, p + 1) \in {"0", "1", "2"} THEN 2
    ELSE IF At(value, p) = "0" /\ IsDigit(At(value, p + 1)) /\ At(value, p + 1) # "0" THEN 2
    ELSE IF IsDigit(At(value, p)) /\ At(value, p) # "0" THEN 1
    ELSE 0
DayWidth(value, p) ==
    IF At(value, p) = "3" /\ At(value, p + 1) \in {"0", "1"} THEN 2
    ELSE IF At(value, p) \in {"1", "2"} /\ IsDigit(At(value, p + 1)) THEN 2
    ELSE IF At(value, p) = "0" /\ IsDigit(At(value, p + 1)) /\ At(value, p + 1) # "0" THEN 2
    ELSE IF IsDigit(At(value, p)) /\ At(value, p) # "0" THEN 1
    ELSE IF At(value, p) = "s" /\ IsDigit(At(value, p + 1)) /\ At(value, p + 1) # "0" THEN 2
    ELSE 0
\* int() of the matched text
RECURSIVE Number(_)
Number(t) ==
    IF t = <<>> THEN 0
    ELSE IF t[Len(t)] = "s" THEN Number(SubSeq(t, 1, Len(t) - 1))
    ELSE 10 * Number(SubSeq(t, 1, Len(t) - 1)) + DigitValue(t[Len(t)])

\* The calendar check made when the datetime is built.
IsLeap(y) == (y % 4 = 0 /\ y % 100 # 0) \/ y % 400 = 0
DaysIn(y, m) ==
    IF m = 2 THEN (IF IsLeap(y) THEN 29 ELSE 28)
    ELSE IF m \in {4, 6, 9, 11} THEN 30 ELSE 31

\* The formats of lines 81-87, in dictionary order.  A format is the literal
\* after %Y, the literal after %m, whether %d follows, and the literal
\* after %d.
Formats ==
    << [sep1 |-> "-", sep2 |-> "-", day |-> TRUE, tail |-> <<>>],
       [sep1 |-> "/", sep2 |-> "/", day |-> TRUE, tail |-> <<>>],
       [sep1 |-> "YEAR", sep2 |-> "MONTH", day |-> TRUE, tail |-> <<"DAY">>],
       [sep1 |-> "YEAR", sep2 |-> "MONTH", day |-> TRUE, tail |-> <<>>],
       [sep1 |-> "YEAR", sep2 |-> "MONTH", day |-> FALSE, tail |-> <<>>] >>

NoDate == [ok |-> FALSE, y |-> 0, m |-> 0, d |-> 0]
\* datetime.strptime(value, fmt); ok = FALSE stands for ValueError.
Strptime(value, fmt) ==
    LET yw == YearWidth(value, 1)
        pm == 1 + yw + 1
        mw == MonthWidth(value, pm)
        pd == pm + mw + 1
        dw == IF fmt.day THEN DayWidth(value, pd) ELSE 0
        end == IF fmt.day THEN pd + dw + Len(fmt.tail) - 1 ELSE pm + mw
        y == Number(SubSeq(value, 1, 4))
        m == Number(SubSeq(value, pm, pm + mw - 1))
        d == IF fmt.day THEN Number(SubSeq(value, pd, pd + dw - 1)) ELSE 1
    IN  IF /\ yw = 4 /\ At(value, 5) = fmt.sep1
           /\ mw > 0 /\ At(value, pm + mw) = fmt.sep2
           /\ fmt.day => (dw > 0 /\ SubSeq(value, pd + dw, Len(value)) = fmt.tail)
           /\ Len(value) = end
           /\ y >= 1 /\ d <= DaysIn(y, m)
        THEN [ok |-> TRUE, y |-> y, m |-> m, d |-> d]
        ELSE NoDate

\* dt.strftime: %m and %d are two digits; %Y is the year as the C library
\* of this build (glibc) prints it, without leading zeros.
RECURSIVE Decimal(_)
Decimal(n) ==
    IF n < 10 THEN <<DigitChars[n + 1]>>
    ELSE Decimal(n \div 10) \o <<DigitChars[(n % 10) + 1]>>
TwoDigits(n) == <<DigitChars[(n \div 10) + 1], DigitChars[(n % 10) + 1]>>
StrftimeYear(y) == Decimal(y)
Strftime(dt, fmt) ==
    StrftimeYear(dt.y) \o <<"YEAR">> \o TwoDigits(dt.m) \o <<"MONTH">>
    \o (IF fmt.day THEN TwoDigits(dt.d) \o <<"DAY">> ELSE <<>>)

\* format_bid_date: the first format that parses decides; Raised stands for
\* the ValueError of line 94.
RECURSIVE FormatFrom(_, _)
FormatFrom(value, k) ==
    IF k > Len(Formats) THEN Raised
    ELSE IF Strptime(value, Formats[k]).ok
    THEN Value(Strftime(Strptime(value, Formats[k]), Formats[k]))
    ELSE FormatFrom(value, k + 1)
FormatBidDate(value) == FormatFrom(value, 1)

\* apply_project_config.  mapping (lines 102-111), in dictionary order.
Mapping ==
    << <<"bid_title", "BID_TITLE">>, <<"bid_doc_type", "BID_DOC_TYPE">>,
       <<"project_no", "PROJECT_NO">>, <<"project_name", "PROJECT_NAME">>,
       <<"package_name", "PACKAGE_NAME">>, <<"package_no", "PACKAGE_NO">>,
       <<"supplier_name", "SUPPLIER_NAME">>, <<"bid_date", "BID_DATE">> >>
\* Line 113
RequiredOnlyNo == <<"project_no">>
Required == <<"project_no", "bid_date">>
\* project.get(key): the value, or None when the key is absent; "if val"
\* holds for a value that is present and not empty.
HasValue(project, key) == key \in DOMAIN project /\ project[key] # <<>>
\* Line 114
Missing(project) == SelectSeq(Required, LAMBDA key : ~HasValue(project, key))

\* Lines 118-123: the loop from entry k of mapping on.  environ is
\* os.environ; the result is the environment reached and whether
\* format_bid_date raised on the way.
RECURSIVE SetFrom(_, _, _)
SetFrom(project, environ, k) ==
    IF k > Len(Mapping) THEN [environ |-> environ, ret |-> Value(<<>>)]
    ELSE LET key == Mapping[k][1]
             env == Mapping[k][2]
             val == IF key = "bid_date" THEN FormatBidDate(project[key])
                    ELSE Value(project[key])
         IN  IF ~HasValue(project, key) THEN SetFrom(project, environ, k + 1)
             ELSE IF val.kind = "raise" THEN [environ |-> environ, ret |-> Raised]
             ELSE SetFrom(project,
                          [e \in DOMAIN environ \cup {env} |->
                              IF e = env THEN val.val ELSE environ[e]],
                          k + 1)

\* apply_project_config
ApplyProjectConfig(project, environ) ==
    IF DOMAIN project = {} THEN [environ |-> environ, ret |-> Value(<<>>)]
    ELSE IF Missing(project) # <<>> THEN [environ |-> environ, ret |-> Raised]
    ELSE SetFrom(project, environ, 1)

\* Inputs.  Dates: a year, a month and a day text written in one of the
\* layouts, and some texts of no layout.
YearTexts == { <<"2", "0", "2", "4">>, <<"0", "9", "9", "9">>, <<"0", "0", "0", "0">>, <<"2", "0", "2">> }
MonthTexts == { <<"2">>, <<"0", "2">>, <<"1", "2">>, <<"1", "3">>, <<"0">> }
DayTexts == { <<"1">>, <<"0", "1">>, <<"2", "9">>, <<"3", "0">>, <<"3", "2">>, <<"s", "3">> }
Layouts ==
    { <<"-", "-", "">>, <<"/", "/", "">>, <<"YEAR", "MONTH", "DAY">>,
      <<"YEAR", "MONTH", "">>, <<"-", "/", "">>, <<"-", "-", "DAY">> }
DateOf(y, m, d, layout) ==
    y \o <<layout[1]>> \o m \o <<layout[2]>> \o d
    \o (IF layout[3] = "" THEN <<>> ELSE <<layout[3]>>)
DateTexts ==
    {DateOf(y, m, d, layout) : y \in YearTexts, m \in MonthTexts, d \in DayTexts,
                               layout \in Layouts}
    \cup {y \o <<"YEAR">> \o m \o <<"MONTH">> : y \in YearTexts, m \in MonthTexts}
    \cup { <<>>, <<"x">>, <<"s", "2", "0", "2", "4", "-", "0", "2", "-", "0", "3">>,
           <<"2", "0", "2", "4", "-", "0", "2", "-", "0", "3", "s">>,
           <<"2", "0", "2", "4", "0", "2", "0", "3">> }

\* Projects: some of the keys, each with a value that may be empty.
ProjectKeys == {"bid_title", "project_no", "supplier_name", "bid_date", "author"}
ValuesOf(key) ==
    IF key = "bid_date"
    THEN { <<>>, <<"2", "0", "2", "4", "-", "0", "2", "-", "0", "3">>,
           <<"2", "0", "2", "4", "YEAR", "2", "MONTH">>, <<"x">> }
    ELSE { <<>>, <<"a">> }
Projects ==
    UNION {{p \in [keys -> UNION {ValuesOf(k) : k \in keys}] :
               \A k \in keys : p[k] \in ValuesOf(k)} : keys \in SUBSET ProjectKeys}
\* os.environ before the call.
Environs ==
    { EmptyDir,
      [e \in {"BID_TITLE", "SUPPLIER_NAME", "BID_DATE", "PROJECT_NAME"} |-> <<"x", "x">>] }

NoProjectCall ==
    [fn |-> "none", value |-> <<>>, project |-> EmptyDir, before |-> EmptyDir,
     environ |-> EmptyDir, ret |-> Raised, again |-> Raised]
InitProjectVars == pj = NoProjectCall

\* format_bid_date is applied to the drawn text, and to its own result.
FormatBidDateCall(value) ==
    /\ pj.fn = "none"
    /\ pj' = [pj EXCEPT !.fn = "format_bid_date",
                        !.ret = FormatBidDate(value),
                        !.again = IF FormatBidDate(value).kind = "value"
                                  THEN FormatBidDate(FormatBidDate(value).val)
                                  ELSE Raised]
ApplyProjectConfigCall(project) ==
    /\ pj.fn = "none"
    /\ pj' = [pj EXCEPT !.fn = "apply_project_config",
                        !.environ = ApplyProjectConfig(project, pj.environ).environ,
                        !.ret = ApplyProjectConfig(project, pj.environ).ret]

FormatBidDateStep ==
    /\ pj.value \in DateTexts /\ pj.project = EmptyDir /\ pj.before = EmptyDir
    /\ FormatBidDateCall(pj.value)
    /\ UNCHANGED <<chatVars, cacheVars, jsonVars, rk, mg, lx, cp, ol, extVars>>
ApplyProjectConfigStep ==
    /\ pj.value = <<>>
    /\ ApplyProjectConfigCall(pj.project)
    /\ UNCHANGED <<chatVars, cacheVars, jsonVars, rk, mg, lx, cp, ol, extVars>>

\* ------------------------------------------------------------------------
\* build_outline (src/outline_builder.py)
\* ------------------------------------------------------------------------
\* A FormatRequirement is [section, details] and a RequirementItem is
\* [title, notes, section]: the fields build_outline reads.  The texts use
\* the tokens "#" "-" ":" for the characters, "s" for a space, "LF" for
\* a newline.

\* Line 21: f"# {fmt.section}"
HeadingLine(fmt) == <<"#", "s">> \o fmt.section

\* Lines 26-27: f"- {item.title}{detail}"
BulletLine(item) ==
    LET detail == IF item.notes # <<>> THEN <<":", "s">> \o item.notes ELSE <<>>
    IN  <<"-", "s">> \o item.title \o detail

\* Line 25: item.section == fmt.section
InSectionAlways(item, fmt) == TRUE
InSection(item, fmt) == item.section = fmt.section

\* Lines 24-27: the inner loop over content_reqs.
RECURSIVE BulletLines(_, _)
BulletLines(fmt, content_reqs) ==
    IF content_reqs = <<>> THEN <<>>
    ELSE (IF InSection(Head(content_reqs), fmt) THEN <<BulletLine(Head(content_reqs))>> ELSE <<>>)
         \o BulletLines(fmt, Tail(content_reqs))

\* Lines 21-28: what one format requirement appends to lines.
BlockLines(fmt, content_reqs) ==
    <<HeadingLine(fmt)>>
    \o (IF fmt.details # <<>> THEN <<fmt.details>> ELSE <<>>)
    \o BulletLines(fmt, content_reqs)
    \o << <<>> >>

\* Lines 19-28: the outer loop over format_reqs.
RECURSIVE OutlineLines(_, _)
OutlineLines(format_reqs, content_reqs) ==
    IF format_reqs = <<>> THEN <<>>
    ELSE BlockLines(Head(format_reqs), content_reqs)
         \o OutlineLines(Tail(format_reqs), content_reqs)

\* Line 29: "\n".join(lines).strip()
BuildOutline(format_reqs, content_reqs) ==
    Strip(Join(OutlineLines(format_reqs, content_reqs), <<"LF">>))

\* The inputs of the model.
MaxFormatReqs == 2
MaxContentReqs == 2
FormatRequirements ==
    { [section |-> <<"a">>, details |-> <<"b">>],
      [section |-> <<"a">>, details |-> <<>>],
      [section |-> <<"x">>, details |-> <<"b", "s">>],
      [section |-> <<"x">>, details |-> <<"s">>],
      [section |-> <<>>, details |-> <<>>] }
RequirementItems ==
    { [title |-> <<"q">>, notes |-> <<>>, section |-> <<"a">>],
      [title |-> <<"b">>, notes |-> <<"x">>, section |-> <<"a">>],
      [title |-> <<"q", "s">>, notes |-> <<>>, section |-> <<"x">>],
      [title |-> <<"b">>, notes |-> <<"q">>, section |-> <<"q">>],
      [title |-> <<"q">>, notes |-> <<"b">>, section |-> <<>>] }
ListsOf(S, n) == UNION { [1..k -> S] : k \in 0..n }
FormatReqLists == ListsOf(FormatRequirements, MaxFormatReqs)
ContentReqLists == ListsOf(RequirementItems, MaxContentReqs)

NoOutlineCall == [fn |-> "none", format_reqs |-> <<>>, content_reqs |-> <<>>, ret |-> <<>>]
InitOutlineVars == ol = NoOutlineCall

BuildOutlineCall(format_reqs, content_reqs) ==
    ol' = [fn |-> "build_outline", format_reqs |-> format_reqs,
           content_reqs |-> content_reqs,
           ret |-> BuildOutline(format_reqs, content_reqs)]

BuildOutlineStep ==
    /\ ol.fn = "none"
    /\ BuildOutlineCall(ol.format_reqs, ol.content_reqs)
    /\ UNCHANGED <<chatVars, cacheVars, jsonVars, rk, mg, lx, cp, pj, extVars>>

\* ------------------------------------------------------------------------
\* table_to_markdown, table_to_latex (src/table_extractor.py)
\* ------------------------------------------------------------------------
\* A table is a sequence of rows, a row a sequence of cells, a cell a text.

\* Lines 32 and 35: "| " + " | ".join(row) + " |"
MarkdownRow(row) == <<"|", "s">> \o Join(row, <<"s", "|", "s">>) \o <<"s", "|">>

\* Line 33: "|" + "|".join(["---"] * len(header)) + "|"
MarkdownRule(header) ==
    <<"|">> \o Join([k \in 1..Len(header) |-> <<"-", "-", "-">>], <<"|">>) \o <<"|">>

\* table_to_markdown
TableToMarkdown(table) ==
    IF table = <<>> THEN <<>>
    ELSE Join(<<MarkdownRow(table[1]), MarkdownRule(table[1])>>
              \o [k \in 1..(Len(table) - 1) |-> MarkdownRow(table[k + 1])],
              <<"LF">>)

\* escape_latex of table_extractor.py: the same replacements, in the same
\* order, as _escape_latex of latex_renderer.py.
TableEscapeLatex(text) == Concat([k \in 1..Len(text) |-> EscapeToken(text[k])])

\* Line 43: max(len(row) for row in table)
MaxLen(table) ==
    CHOOSE n \in {Len(table[k]) : k \in 1..Len(table)} :
        \A k \in 1..Len(table) : Len(table[k]) <= n

\* Line 48: " & ".join(cells) + r" \\"
TableLatexRow(row) ==
    Join([k \in 1..Len(row) |-> TableEscapeLatex(row[k])], <<"s", "&", "s">>)
    \o <<"s", "b", "b">>

\* table_to_latex
TableToLatex(table) ==
    IF table = <<>> THEN <<>>
    ELSE LET cols == MaxLen(table)
             col_spec == Join([k \in 1..cols |-> <<"l">>], <<"s", "|", "s">>)
         IN  Join(<< BeginTabular \o col_spec \o <<"}">>, Hline >>
                  \o Concat([k \in 1..Len(table) |-> <<TableLatexRow(table[k]), Hline>>])
                  \o << EndTabular >>,
                  <<"LF">>)

\* The tables of the model: n rows of m cells that read "a" and "x" in turn,
\* with one cell replaced by a chosen text.
MaxRows == 2
MaxCols == 2
CellTexts ==
    { <<"a">>, <<>>, <<"s", "a">>, <<"x", "s">>, <<"-">>, <<"#">>, <<"a", "&", "x">>,
      <<"{", "a", "}">> }
PlainTable(n, m) ==
    [i \in 1..n |-> [j \in 1..m |-> IF (i + j) % 2 = 0 THEN <<"a">> ELSE <<"x">>]]
TablesOf(n, m) ==
    { [PlainTable(n, m) EXCEPT ![i][j] = c] : i \in 1..n, j \in 1..m, c \in CellTexts }
Tables == UNION { TablesOf(n, m) : n \in 1..MaxRows, m \in 1..MaxCols }

NoTable == [table |-> <<>>, md |-> None, via |-> None, direct |-> None]
InitTableVars == tb = NoTable

\* md = table_to_markdown(table)
TableToMarkdownCall(table) ==
    /\ tb.md = None
    /\ tb' = [tb EXCEPT !.md = Some(TableToMarkdown(table))]
\* markdown_to_latex(md, client=..., cache=..., use_llm=False)
MarkdownTableCall(md) ==
    /\ tb.md # None /\ tb.via = None
    /\ tb' = [tb EXCEPT !.via = Some(MarkdownToLatex(cache, md, FALSE, NotAsked).ret.val)]
\* table_to_latex(table)
TableToLatexCall(table) ==
    /\ tb.direct = None
    /\ tb' = [tb EXCEPT !.direct = Some(TableToLatex(table))]

TableToMarkdownStep ==
    /\ TableToMarkdownCall(tb.table)
    /\ UNCHANGED <<chatVars, cacheVars, jsonVars, rk, docVars, pr, tk, ex>>
MarkdownTableStep ==
    /\ MarkdownTableCall(tb.md.text)
    /\ UNCHANGED <<chatVars, cacheVars, jsonVars, rk, docVars, pr, tk, ex>>
TableToLatexStep ==
    /\ TableToLatexCall(tb.table)
    /\ UNCHANGED <<chatVars, cacheVars, jsonVars, rk, docVars, pr, tk, ex>>


\* ------------------------------------------------------------------------
\* parse_requirements (src/requirements_parser.py)
\* ------------------------------------------------------------------------
\* Further tokens, each standing for a fixed JSON or CSV text:
\*   "OBJ_REQ"    {"id": "1", "title": "a", "keywords": ["k"], "source": "",
\*                 "notes": "", "weight": 1}
\*   "OBJ_REQ_W"  {"title": "a", "weight": "x"}
\*   "INPUT_LABEL" "ARRAY_LABEL"  the fixed parts of the user prompt
\* An exception is named by its class; JSONDecodeError and
\* UnicodeDecodeError are subclasses of ValueError.
Raise(cls) == [kind |-> "raise", val |-> <<cls>>]

\* A RequirementItem.  weight is written as Python prints the float.
Item(id, title, keywords, weight) ==
    [id |-> id, title |-> title, keywords |-> keywords, source |-> <<>>,
     notes |-> <<>>, weight |-> weight, response_type |-> <<"generate">>,
     section |-> <<>>]

\* The characters of a token.  In a spelt text the letter s is written
\* "ess" ("s" is the space) and the backquote "TICK".
Spell(tok) ==
    CASE tok = "role" -> <<"r", "o", "l", "e">>
      [] tok = "content" -> <<"c", "o", "n", "t", "e", "n", "t">>
      [] tok = "system" -> <<"ess", "y", "ess", "t", "e", "m">>
      [] tok = "user" -> <<"u", "ess", "e", "r">>
      [] tok = "id" -> <<"i", "d">>
      [] tok = "title" -> <<"t", "i", "t", "l", "e">>
      [] tok = "J" -> <<"TICK", "TICK", "TICK", "j", "ess", "o", "n">>
      [] tok = "F" -> <<"TICK", "TICK", "TICK">>
      [] tok = "NULL" -> <<"n", "u", "l", "l">>
      [] OTHER -> <<tok>>
Chars(text) == Concat([i \in 1..Len(text) |-> Spell(text[i])])

\* The string a JSON string literal stands for, from the text between its
\* quotes: an escape is replaced by its character (\r, \t and \n are
\* followed by the other letters of their word).
RECURSIVE Unescape(_)
Unescape(c) ==
    IF c = <<>> THEN <<>>
    ELSE IF Head(c) = "b"
    THEN (CASE c[2] = "role" -> <<"CR", "o", "l", "e">>
            [] c[2] = "title" -> <<"TAB", "i", "t", "l", "e">>
            [] c[2] = "NULL" -> <<"LF", "u", "l", "l">>
            [] OTHER -> <<c[2]>>) \o Unescape(SubSeq(c, 3, Len(c)))
    ELSE <<Head(c)>> \o Unescape(Tail(c))
StrOf(data) == Unescape(SubSeq(data, 2, Len(data) - 1))

\* str(None)
NoneText == <<"N", "o", "n", "e">>

\* A raw item is a dict (named by its token), a list (kept as its JSON
\* text), or a value of which only str() is taken.
RawDict(tok) == [kind |-> "dict", text |-> <<tok>>]
RawList(text) == [kind |-> "list", text |-> text]
RawStr(text) == [kind |-> "str", text |-> text]
RawOf(data) ==
    CASE TypeOf(data) = "list" -> RawList(data)
      [] TypeOf(data) = "str" -> RawStr(StrOf(data))
      [] TypeOf(data) = "int" -> RawStr(data)
      [] TypeOf(data) = "NoneType" -> RawStr(NoneText)
      [] OTHER -> IF data = <<"{", "}">> THEN RawDict("OBJ_EMPTY") ELSE RawDict(Head(data))

\* The elements of a parsed JSON array.
Elements(data) == [k \in 1..Len(ElementsOf(data)) |-> RawOf(ElementsOf(data)[k])]
\* data.get("items", []): only default_data has the key.
GetItems(data) ==
    IF data = <<"OBJ_ITEMS">> THEN <<RawDict("OBJ_DEFAULT_REQ")>> ELSE <<>>
\* Line 111: data if isinstance(data, list) else data.get("items", []), for
\* a list or a dict.
ItemsRaw(data) == IF TypeOf(data) = "list" THEN Elements(data) ELSE GetItems(data)

\* Iterating a dict gives its keys (line 128 after json.loads gave a dict).
DictKeys(data) ==
    CASE data = <<"OBJ_ITEMS">> -> <<RawStr(<<"items">>)>>
      [] data = <<"OBJ_REQ">> ->
            <<RawStr(<<"id">>), RawStr(<<"title">>), RawStr(<<"keywords">>),
              RawStr(<<"source">>), RawStr(<<"notes">>), RawStr(<<"weight">>)>>
      [] data = <<"OBJ_REQ_W">> -> <<RawStr(<<"title">>), RawStr(<<"weight">>)>>
      [] data = <<"{", "}">> -> <<>>
      [] Head(data) \in {"REQS_A", "REQS_NONE", "REQS_STR"} -> <<RawStr(<<"requirements">>)>>
      [] Head(data) \in {"OBJ_RT_A", "OBJ_RT_X"} -> <<RawStr(<<"requirement_text">>)>>
      [] data = <<"OBJ_CAT">> -> <<RawStr(<<"category">>)>>
      [] OTHER -> <<RawStr(<<"score">>)>>
\* Iterating a string gives its characters.
StrItems(data) == [k \in 1..Len(Chars(StrOf(data))) |-> RawStr(<<Chars(StrOf(data))[k]>>)]

\* _from_dict: float(weight) raises ValueError for "x".
FromDict(tok, index) ==
    CASE tok = "OBJ_REQ" ->
            [ok |-> TRUE, item |-> Item(<<"1">>, <<"a">>, <<"k">>, <<"1", ".", "0">>)]
      [] tok = "OBJ_REQ_W" -> [ok |-> FALSE, item |-> Item(<<>>, <<>>, <<>>, <<>>)]
      [] tok = "OBJ_DEFAULT_REQ" ->
            [ok |-> TRUE, item |-> Item(<<"1">>, <<"DEFAULT_REQ">>, <<>>, <<"1", ".", "0">>)]
      [] OTHER ->
            [ok |-> TRUE, item |-> Item(Decimal(index + 1), <<>>, <<>>, <<"1", ".", "0">>)]

\* Lines 128-141: one raw item.  str(item_raw) is kept as the raw text
\* under the mark "STR".
ConvertItem(raw, index) ==
    IF raw.kind = "dict" THEN FromDict(raw.text[1], index)
    ELSE [ok |-> TRUE,
          item |-> Item(Decimal(index + 1),
                        IF raw.kind = "str" THEN raw.text ELSE <<"STR">> \o raw.text,
                        <<>>, <<"1", ".", "0">>)]

\* Lines 126-144
ConvertItems(items_raw) ==
    LET conv == [k \in 1..Len(items_raw) |-> ConvertItem(items_raw[k], k - 1)]
    IN  IF \A k \in 1..Len(conv) : conv[k].ok
        THEN Value([k \in 1..Len(conv) |-> conv[k].item])
        ELSE Raise("ValueError")

\* Line 109
ParseUser(text) == <<"INPUT_LABEL", "LF">> \o text \o <<"LF", "ARRAY_LABEL">>

\* str.splitlines() of a text that path.read_text gave (its line ends are
\* all "\n"): no empty last line after a final line end.
RECURSIVE StrSplitlines(_)
StrSplitlines(text) ==
    IF text = <<>> THEN <<>>
    ELSE IF \E k \in 1..Len(text) : text[k] = "LF"
    THEN LET k == CHOOSE i \in 1..Len(text) :
                     text[i] = "LF" /\ \A j \in 1..(i - 1) : text[j] # "LF"
         IN  <<SubSeq(text, 1, k - 1)>> \o StrSplitlines(SubSeq(text, k + 1, Len(text)))
    ELSE <<text>>

\* csv.reader (the excel dialect, not strict) over the lines.  The reader
\* is in one of five states; c holds the field and the record being read
\* and the records read.  "PART" stands for a piece of an object token
\* that a comma or a quote cut.
CommaCount(tok) ==
    CASE tok \in {"OBJ_ITEMS", "OBJ_REQ"} -> 5
      [] tok = "OBJ_REQ_W" -> 1
      [] OTHER -> 0
CsvStart == [st |-> "START_RECORD", field |-> <<>>, row |-> <<>>, rows |-> <<>>]
AddChar(c, ch, st) == [c EXCEPT !.field = Append(c.field, ch), !.st = st]
SaveField(c, st) == [c EXCEPT !.row = Append(c.row, c.field), !.field = <<>>, !.st = st]
EndRecord(c) == [c EXCEPT !.rows = Append(c.rows, c.row), !.row = <<>>,
                          !.field = <<>>, !.st = "START_RECORD"]
RECURSIVE CutPieces(_, _)
CutPieces(c, n) ==
    IF n = 0 THEN c ELSE CutPieces(AddChar(SaveField(c, "IN_FIELD"), "PART", "IN_FIELD"), n - 1)
CsvChar(c, ch) ==
    IF ch = "EOL"
    THEN (CASE c.st = "START_RECORD" -> EndRecord(c)
            [] c.st = "IN_QUOTED_FIELD" -> c
            [] OTHER -> EndRecord(SaveField(c, "START_RECORD")))
    ELSE IF ch = ","
    THEN (IF c.st = "IN_QUOTED_FIELD" THEN AddChar(c, ch, c.st)
          ELSE SaveField(c, "START_FIELD"))
    ELSE IF ch = "q"
    THEN (CASE c.st \in {"START_RECORD", "START_FIELD"} -> [c EXCEPT !.st = "IN_QUOTED_FIELD"]
            [] c.st = "IN_FIELD" -> AddChar(c, ch, c.st)
            [] c.st = "IN_QUOTED_FIELD" -> [c EXCEPT !.st = "QUOTE_IN_QUOTED_FIELD"]
            [] OTHER -> AddChar(c, ch, "IN_QUOTED_FIELD"))
    ELSE IF ch \in ObjectTokens
    THEN CutPieces(AddChar(c, IF CommaCount(ch) = 0 /\ c.st # "IN_QUOTED_FIELD"
                              THEN ch ELSE "PART", "IN_FIELD"),
                   CommaCount(ch))
    ELSE AddChar(c, ch, IF c.st = "IN_QUOTED_FIELD" THEN c.st ELSE "IN_FIELD")
RECURSIVE CsvChars(_, _)
CsvChars(c, chars) ==
    IF chars = <<>> THEN c ELSE CsvChars(CsvChar(c, Head(chars)), Tail(chars))
\* At the end of the input a field that is still open ends its record.
CsvReader(lines) ==
    LET c == CsvChars(CsvStart, Concat([k \in 1..Len(lines) |-> Append(lines[k], "EOL")]))
    IN  IF c.field # <<>> \/ c.st = "IN_QUOTED_FIELD"
        THEN EndRecord(SaveField(c, "START_RECORD")).rows ELSE c.rows

\* csv.DictReader: the first record is the header, empty records are
\* skipped, and a record shorter than the header has None in the columns
\* it lacks.  Of a row only row.get("id") and row.get("title") are read.
HasColumn(header, name) == \E p \in 1..Len(header) : header[p] = <<name>>
Column(header, row, name) ==
    LET p == CHOOSE i \in 1..Len(header) :
                 header[i] = <<name>> /\ \A j \in (i + 1)..Len(header) : header[j] # <<name>>
    IN  IF p <= Len(row) THEN row[p] ELSE NoneText
CsvItem(header, row, index) ==
    Item(IF HasColumn(header, "id") THEN Column(header, row, "id") ELSE Decimal(index + 1),
         IF HasColumn(header, "title") THEN Column(header, row, "title") ELSE <<>>,
         <<>>, <<"1", ".", "0">>)
CsvItems(text) ==
    LET records == CsvReader(StrSplitlines(text))
        rows == IF records = <<>> THEN <<>>
                ELSE SelectSeq(Tail(records), LAMBDA row : row # <<>>)
    IN  Value([k \in 1..Len(rows) |-> CsvItem(Head(records), rows[k], k - 1)])

\* json.loads(text) of line 117 and what iterating its result gives; len()
\* of a number or of None raises TypeError.
LocalJson(text) ==
    IF ~JsonLoads(text).ok THEN Raise("JSONDecodeError")
    ELSE LET data == JsonLoads(text).data
         IN  CASE TypeOf(data) = "list" -> ConvertItems(Elements(data))
               [] TypeOf(data) = "dict" -> ConvertItems(DictKeys(data))
               [] TypeOf(data) = "str" -> ConvertItems(StrItems(data))
               [] OTHER -> Raise("TypeError")

\* Reading the file raised: the exception class.
Fails(cls) == [some |-> FALSE, text |-> <<cls>>]
\* Lines 81-95: the text of a file that can be read.
TextOf(suffix, file) == IF suffix = ".pdf" THEN file.text ELSE ReadText(file.text)

\* parse_requirements.  file: the content of the file (of a .pdf, the text
\* load_document makes of it), or Fails(cls) when reading it raises.
ParseRequirements(c, suffix, file, use_llm, r1, r2) ==
    LET same(ret) == [ret |-> ret, cache |-> c, chats |-> 0]
        text == TextOf(suffix, file)
        res == LlmJson(c, SysParse, ParseUser(text), r1, r2)
    IN  IF suffix = ".pdf" /\ ~use_llm THEN same(Raise("ValueError"))
        ELSE IF ~file.some THEN same(Raise(file.text[1]))
        ELSE IF use_llm
        THEN IF res.ret.kind = "raise" \/ TypeOf(res.ret.val) \notin {"list", "dict"}
             THEN [ret |-> Raise("RuntimeError"), cache |-> res.cache, chats |-> res.chats]
             ELSE [ret |-> ConvertItems(ItemsRaw(res.ret.val)), cache |-> res.cache,
                   chats |-> res.chats]
        ELSE IF suffix = ".json" THEN same(LocalJson(text))
        ELSE IF suffix = ".csv" THEN same(CsvItems(text))
        ELSE same(Raise("ValueError"))

\* Inputs: the suffix of the path, the file, and what the model answers.
Suffixes == {".pdf", ".json", ".csv", ".md"}
\* A missing file gives an OSError; bytes that are not UTF-8 give a
\* UnicodeDecodeError, which load_document does not raise for a PDF.
ReadErrors(suffix) == IF suffix = ".pdf" THEN {"OSError"} ELSE {"OSError", "UnicodeDecodeError"}
ParseTexts ==
    { <<"[", "OBJ_REQ", "]">>, <<"x">>, <<"id", ",", "title", "LF", "a", ",", "x">>,
      <<"a", "CR", "LF", "q", "x", "LF", "a", "q", "LF">>, <<"OBJ_ITEMS">>, <<"q", "a", "x", "q">> }
ParseFiles(suffix) == {Fails(cls) : cls \in ReadErrors(suffix)} \cup {Some(text) : text \in ParseTexts}
ParseReplies ==
    { Reply(<<"[", "OBJ_REQ", "]">>), Reply(<<"J", "LF", "[", "OBJ_REQ", "]", "LF", "F">>),
      Reply(<<"[", "OBJ_REQ_W", "]">>), Reply(<<"OBJ_SCORE_9">>), Reply(<<"[", "[", "]", "]">>),
      Reply(<<"[", "q", "a", "q", ",", "s", "NULL", "]">>), Reply(<<"q", "a", "q">>),
      Reply(<<"x">>), ChatRaises }
ParseRepairs ==
    { Reply(<<"[", "OBJ_REQ", "]">>), Reply(<<"}", "{">>), Reply(<<"OBJ_ITEMS">>), ChatRaises }
\* The cache before the call: empty, or holding an entry under the key of
\* the request.
ParseCaches(suffix, file) ==
    {EmptyDir}
    \cup (IF file.some
          THEN {CacheSet(EmptyDir, MsgSU(SysParse, ParseUser(TextOf(suffix, file))), v) :
                   v \in {<<"[", "OBJ_REQ", "]">>, <<"x">>}}
          ELSE {})

NoParseCall == [fn |-> "none", suffix |-> ".md", file |-> None, use_llm |-> FALSE,
                r1 |-> NotAsked, r2 |-> NotAsked, ret |-> Raised, before |-> EmptyDir]
InitParseVars == pr = NoParseCall

\* The responses are inputs only of the calls that ask for them.
ParseAnswers(c, suffix, file, use_llm) ==
    IF ParseRequirements(c, suffix, file, use_llm, ChatRaises, ChatRaises).chats >= 1
    THEN ParseReplies ELSE {NotAsked}
ParseSecondAnswers(c, suffix, file, use_llm, r1) ==
    IF ParseRequirements(c, suffix, file, use_llm, r1, ChatRaises).chats = 2
    THEN ParseRepairs ELSE {NotAsked}

ParseRequirementsCall(suffix, file, use_llm, r1, r2) ==
    LET res == ParseRequirements(cache, suffix, file, use_llm, r1, r2)
    IN  /\ pr.fn = "none"
        /\ pr' = [pr EXCEPT !.fn = "parse_requirements", !.r1 = r1, !.r2 = r2,
                            !.ret = res.ret, !.before = cache]
        /\ cache' = res.cache

ParseRequirementsStep ==
    /\ \E r1 \in ParseAnswers(cache, pr.suffix, pr.file, pr.use_llm) :
          \E r2 \in ParseSecondAnswers(cache, pr.suffix, pr.file, pr.use_llm, r1) :
              ParseRequirementsCall(pr.suffix, pr.file, pr.use_llm, r1, r2)
    /\ UNCHANGED <<chatVars, shadow, sets, lastGet, jsonVars, rk, docVars, tb, tk, ex>>

\* ------------------------------------------------------------------------
\* LLMClient.chat: the input length bound (llm_client.py, lines 88-101)
\* ------------------------------------------------------------------------
\* m.get("content", "")
ContentOf(msg) == IF HasField(msg, "content") THEN FieldValue(msg, "content") ELSE <<>>

\* m["content"] = value on a dict: the value of an existing key is replaced
\* in place, a new key is added at the end.
SetContent(msg, value) ==
    IF HasField(msg, "content")
    THEN [k \in 1..Len(msg) |-> IF msg[k][1] = "content" THEN <<"content", value>> ELSE msg[k]]
    ELSE Append(msg, <<"content", value>>)

\* Line 96: sum(len(m.get("content", "")) for m in messages)
RECURSIVE TotalLen(_)
TotalLen(messages) ==
    IF messages = <<>> THEN 0
    ELSE Len(ContentOf(Head(messages))) + TotalLen(Tail(messages))

\* text[:allowed] for allowed >= 0
Prefix(text, allowed) == SubSeq(text, 1, IF allowed < Len(text) THEN allowed ELSE Len(text))

\* Lines 97-101, on the copies made at line 90.
Truncated(messages, max_input_tokens) ==
    LET total_len == TotalLen(messages)
        last_msg == messages[Len(messages)]
        allowed0 == max_input_tokens - (total_len - Len(ContentOf(last_msg)))
        allowed == IF allowed0 < 0 THEN 0 ELSE allowed0
    IN  IF total_len > max_input_tokens /\ messages # <<>>
        THEN [messages EXCEPT ![Len(messages)] = SetContent(last_msg, Prefix(ContentOf(last_msg), allowed))]
        ELSE messages

\* Lines 88-101: the list handed to conversation.call, and the caller's
\* message objects after it.  Line 90 copies every message, and the
\* assignment of line 101 goes to the copy.
ChatInput(messages, max_input_tokens) ==
    LET copies == [k \in 1..Len(messages) |-> messages[k]]
    IN  [sent |-> Truncated(copies, max_input_tokens), caller |-> messages]

\* Inputs: contents of up to MaxContent characters, lists of up to
\* MaxMessages messages, limits up to MaxInputTokens.
MaxContent == 3
MaxMessages == 2
MaxInputTokens == 3
Contents == UNION { [1..n -> {"a"}] : n \in 0..MaxContent }
ChatMessages ==
    { <<<<"role", <<"user">>>>, <<"content", c>>>> : c \in Contents }
    \cup { <<<<"role", <<"user">>>>>> }
ChatMessageLists == UNION { [1..n -> ChatMessages] : n \in 0..MaxMessages }

NoChatInput == [fn |-> "none", messages |-> <<>>, max_input_tokens |-> 0,
                sent |-> <<>>, caller |-> <<>>]
InitTruncVars == tk = NoChatInput

ChatInputCall(messages, max_input_tokens) ==
    LET res == ChatInput(messages, max_input_tokens)
    IN  /\ tk.fn = "none"
        /\ tk' = [tk EXCEPT !.fn = "chat", !.sent = res.sent, !.caller = res.caller]

ChatInputStep ==
    /\ ChatInputCall(tk.messages, tk.max_input_tokens)
    /\ UNCHANGED <<chatVars, cacheVars, jsonVars, rk, docVars, tb, pr, ex>>

\* ------------------------------------------------------------------------
\* Requirement extractor (full_pipeline.py, scripts/pdf_extractor.py)
\* The object tokens of the replies:
\*   "REQS_A"   {"requirements": [{"requirement_text": "a"}]}
\*   "REQS_NONE"   {"requirements": []}     "REQS_STR"   {"requirements": "ab"}
\*   "OBJ_RT_A"   {"requirement_text": "a"}  "OBJ_RT_X"   {"requirement_text": "x"}
\*   "OBJ_CAT"   {"category": "x"}
\* ------------------------------------------------------------------------
\* A requirement object with its requirement_text, one without, and an
\* array element that is no object.
ReqText(text) == [dict |-> TRUE, text |-> Some(text)]
ReqNoText == [dict |-> TRUE, text |-> None]
NotDict == [dict |-> FALSE, text |-> None]

\* An element of the list as the loop of lines 190-191 meets it.
ReqOf(data) ==
    CASE data = <<"OBJ_RT_A">> -> ReqText(<<"a">>)
      [] data = <<"OBJ_RT_X">> -> ReqText(<<"x">>)
      [] TypeOf(data) = "dict" -> ReqNoText
      [] OTHER -> NotDict

\* Lines 178-187 of pdf_extractor.py: the list itself, the "requirements"
\* field of an object (default []), or nothing for any other value.  The
\* field of "REQS_STR" is a string, whose elements are its two characters.
RequirementsOf(data) ==
    CASE TypeOf(data) = "list" -> [k \in 1..Len(ElementsOf(data)) |-> ReqOf(ElementsOf(data)[k])]
      [] data = <<"REQS_A">> -> <<ReqText(<<"a">>)>>
      [] data = <<"REQS_STR">> -> <<NotDict, NotDict>>
      [] OTHER -> <<>>

\* str.find(sub, start) for the fence tokens: the first position at or
\* after start holding a token of marks, 0 when there is none.
Find(t, marks, start) ==
    IF \E k \in start..Len(t) : t[k] \in marks
    THEN CHOOSE k \in start..Len(t) :
            t[k] \in marks /\ \A j \in start..(k - 1) : t[j] \notin marks
    ELSE 0

\* Lines 164-176: the text between a ```json (else a ```) and the next ```,
\* stripped; the reply unchanged when the fence is not closed.  ```json
\* begins with ```, so it closes a fence as well.
Unfenced(content) ==
    LET open == IF Contains(content, "J") THEN Find(content, {"J"}, 1)
                ELSE Find(content, {"F"}, 1)
        json_end == Find(content, {"J", "F"}, open + 1)
    IN  IF open = 0 \/ json_end = 0 THEN content
        ELSE Strip(SubSeq(content, open + 1, json_end - 1))

\* What extract_all_requirements does with the answer of llm_client.chat
\* (lines 159-207): it returns the requirement list, or leaves through
\* sys.exit(1), which raises SystemExit.
Return(requirements) == [kind |-> "return", requirements |-> requirements]
SysExit == [kind |-> "SystemExit", requirements |-> <<>>]
ExtractAllRequirements(r) ==
    IF ~r.ok THEN SysExit
    ELSE LET parsed == JsonLoads(Unfenced(r.text))
             requirements == RequirementsOf(parsed.data)
         IN  IF ~parsed.ok THEN SysExit
             ELSE IF \E k \in 1..Len(requirements) : ~requirements[k].dict
             THEN SysExit
             ELSE Return(requirements)

\* Lines 106-108 of full_pipeline.py: one line per requirement, until one has
\* no requirement_text (KeyError).
RECURSIVE AppendLines(_, _)
AppendLines(lines, page_requirements) ==
    IF page_requirements = <<>> THEN [lines |-> lines, raised |-> FALSE]
    ELSE IF ~Head(page_requirements).text.some
    THEN [lines |-> lines, raised |-> TRUE]
    ELSE AppendLines(Append(lines, <<"-", "s">> \o Head(page_requirements).text.text),
                     Tail(page_requirements))

\* Lines 105-117: the try block of one page.  "except Exception" does not
\* catch SystemExit.
OnePage(lines, r) ==
    LET res == ExtractAllRequirements(r)
    IN  IF res.kind = "SystemExit" THEN [lines |-> lines, exit |-> TRUE]
        ELSE [lines |-> AppendLines(lines, res.requirements).lines, exit |-> FALSE]

\* Bounds and inputs.
MaxPages == 3
PageTexts ==
    { <<"REQS_A">>, <<"REQS_NONE">>, <<"{", "}">>, <<"[", "OBJ_RT_A", ",", "s", "OBJ_RT_X", "]">>,
      <<"[", "OBJ_RT_A", ",", "OBJ_CAT", "]">>, <<"[", "q", "a", "q", "]">>,
      <<"NUMBER">>, <<"NULL">>, <<"q", "a", "q">>, <<"REQS_STR">>, <<"[", "s", "]">>,
      <<"x">>, <<>>, <<"s", "REQS_A", "LF">>,
      <<"J", "LF", "[", "OBJ_RT_A", ",", "s", "OBJ_RT_X", "]", "LF", "F">>,
      <<"x", "J", "REQS_A", "F", "x">>,
      <<"F", "LF", "REQS_A", "LF", "F">>, <<"J", "REQS_A">>,
      <<"F", "J", "REQS_A", "F">>, <<"J", "x", "F">> }
PageReplies == {Reply(t) : t \in PageTexts} \cup {ChatRaises}
OldOutputs == {None, Some(<<"-", "s", "x">>)}

NoExtract == [pc |-> "idle", total_pages |-> 0, page_number |-> 1, lines |-> <<>>,
              rounds |-> <<>>, out |-> None]
InitExtractVars == ex = NoExtract

\* Lines 88-93: the PDF is opened and its pages counted; with no page the
\* loop is empty and the file is written at once (line 119).
ExtractBegin(total_pages) ==
    /\ ex.pc = "idle"
    /\ ex' = [ex EXCEPT !.total_pages = total_pages,
                        !.pc = IF total_pages = 0 THEN "done" ELSE "loop",
                        !.out = IF total_pages = 0 THEN Some(<<>>) ELSE ex.out]

\* Lines 95-117: one page; after the last page line 119 writes the file.
\* rounds observes what llm_client.chat answered for each page.
ExtractPage(r) ==
    /\ ex.pc = "loop"
    /\ LET one == OnePage(ex.lines, r)
           last_page == ex.page_number = ex.total_pages
       IN  ex' = [ex EXCEPT
                  !.rounds = Append(ex.rounds, r),
                  !.lines = one.lines,
                  !.page_number = ex.page_number + 1,
                  !.pc = IF one.exit THEN "exit"
                         ELSE IF last_page THEN "done" ELSE "loop",
                  !.out = IF ~one.exit /\ last_page
                          THEN Some(Join(one.lines, <<"LF">>)) ELSE ex.out]

ExtractBeginStep ==
    /\ \E total_pages \in 0..MaxPages : ExtractBegin(total_pages)
    /\ UNCHANGED <<chatVars, cacheVars, jsonVars, rk, docVars, tb, pr, tk>>
ExtractPageStep ==
    /\ \E r \in PageReplies : ExtractPage(r)
    /\ UNCHANGED <<chatVars, cacheVars, jsonVars, rk, docVars, tb, pr, tk>>

InitExtVars ==
    InitTableVars /\ InitParseVars /\ InitTruncVars /\ InitExtractVars

InitDocVars ==
    InitMergeVars /\ InitLatexVars /\ InitPdfVars /\ InitProjectVars /\ InitOutlineVars

\* ------------------------------------------------------------------------
\* LLMClient (llm_client.py)
\* ------------------------------------------------------------------------
\* What one conversation.call can lead to inside the try block.
Outcomes == {"sdk_raise", "ok_text", "ok_choices", "bad_format",
             "quota403", "http400", "http403", "http500"}

\* Outcomes in which conversation.call itself returned a response.
Responded == Outcomes \ {"sdk_raise"}

\* With an empty model list (which __post_init__ accepts) "self.model" raises
\* IndexError inside the try block before conversation.call is reached.
NoModel == "index_error"
\* What one iteration of the loop can meet.
Attempts(n) == IF n = 0 THEN {NoModel} ELSE Outcomes

\* Outcomes that end in the except clause.
Raising == {"sdk_raise", "bad_format", "http400", "http403", "http500", NoModel}

\* __post_init__: an out-of-range start index is reset to 0.
PostInitIndex(n) == IF StartIndex >= n THEN 0 ELSE StartIndex

\* _rotate_model
RotateModel(idx, n) == IF idx + 1 >= n THEN 0 ELSE idx + 1

\* "if attempt >= self.max_retries: raise"
RetriesExhaustedOffByOne(att, maxr) == att > maxr
RetriesExhausted(att, maxr) == att >= maxr

\* "time.sleep(2 ** attempt)"
BackoffEarly(att) == 2 ^ (att - 1)
Backoff(att) == 2 ^ att

\* The index chat sends a request with after seeing outcome o.
IndexAfter(o, idx, n) == IF o = "quota403" THEN RotateModel(idx, n) ELSE idx

InitChatVars ==
    /\ nModels \in 0..MaxModels
    /\ max_retries \in 0..MaxRetries
    /\ model_index = PostInitIndex(nModels)
    /\ request_counter = 0
    /\ pc = "idle"
    /\ attempt = 0
    /\ requests = 0
    /\ usedModels = {}
    /\ delays = <<>>
    /\ lastOutcome = "none"
    /\ quotaSeen = FALSE

\* chat is entered: "attempt = 0" before the loop.
ChatBegin ==
    /\ pc \in {"idle", "returned", "raised"}
    /\ pc' = "running"
    /\ attempt' = 0
    /\ requests' = 0
    /\ usedModels' = {}
    /\ delays' = <<>>
    /\ lastOutcome' = "none"
    /\ quotaSeen' = FALSE
    /\ UNCHANGED <<nModels, model_index, max_retries, request_counter, extVars>>

\* One iteration of "while True".
ChatRequest(o) ==
    /\ pc = "running"
    /\ requests' = IF requests < MaxReq /\ o # NoModel THEN requests + 1 ELSE requests
    /\ usedModels' = IF o = NoModel THEN usedModels ELSE usedModels \cup {model_index}
    /\ lastOutcome' = o
    /\ request_counter' = IF o \in Responded THEN (request_counter + 1) % 2
                          ELSE request_counter
    /\ model_index' = IndexAfter(o, model_index, nModels)
    /\ quotaSeen' = (quotaSeen \/ o = "quota403")
    /\ IF o \in {"ok_text", "ok_choices"}
       THEN /\ pc' = "returned"
            /\ UNCHANGED <<attempt, delays, extVars>>
       ELSE IF o = "quota403"
       THEN /\ pc' = "running"
            /\ UNCHANGED <<attempt, delays, extVars>>
       ELSE /\ attempt' = attempt + 1
            /\ IF RetriesExhausted(attempt + 1, max_retries)
               THEN /\ pc' = "raised"
                    /\ UNCHANGED delays
               ELSE /\ pc' = "running"
                    /\ delays' = Append(delays, Backoff(attempt + 1))
    /\ UNCHANGED <<nModels, max_retries, extVars>>

ChatStep ==
    /\ \E o \in Attempts(nModels) : ChatRequest(o)
    /\ UNCHANGED <<cacheVars, jsonVars, rk, docVars, extVars>>

InitChat == InitChatVars /\ InitCacheVars /\ InitJsonVars /\ InitRankVars /\ InitExtVars /\ InitDocVars
ChatBeginStep == ChatBegin /\ UNCHANGED <<cacheVars, jsonVars, rk, docVars, extVars>>
NextChat == ChatBeginStep \/ ChatStep

\* A client that is constructed and left alone.
IdleChat ==
    /\ nModels = 1 /\ max_retries = MaxRetries
    /\ model_index = PostInitIndex(nModels)
    /\ request_counter = 0 /\ pc = "idle" /\ attempt = 0 /\ requests = 0
    /\ usedModels = {} /\ delays = <<>> /\ lastOutcome = "none"
    /\ quotaSeen = FALSE

InitCache == IdleChat /\ InitCacheVars /\ InitJsonVars /\ InitRankVars /\ InitExtVars /\ InitDocVars

InitJson == IdleChat /\ InitCacheVars /\ InitJsonVars /\ InitRankVars /\ InitExtVars /\ InitDocVars

InitRank == IdleChat /\ InitCacheVars /\ InitJsonVars /\ InitRankVars /\ InitExtVars /\ InitDocVars
NextRank == RankBeginStep \/ RankFileStep
SpecRank == InitRank /\ [][NextRank]_vars
NextJson == LlmJsonStep \/ LlmRewriteStep
SpecJson == InitJson /\ [][NextJson]_vars
SpecCache == InitCache /\ [][NextCache]_vars

SpecChat == InitChat /\ [][NextChat]_vars

\* The loop of a running chat call always takes its next iteration.
SpecChatFair == SpecChat /\ WF_vars(ChatStep)

\* merge_contents is called once, on a cache directory that is empty or holds
\* an earlier answer.
InitMerge ==
    /\ IdleChat /\ InitJsonVars /\ InitRankVars /\ InitExtVars /\ InitDocVars
    /\ cache \in MergeCaches /\ shadow = EmptyDir /\ sets = 0
    /\ lastGet = [asked |-> FALSE, messages |-> <<>>, result |-> None, latest |-> None]
NextMerge == MergeBeginStep \/ MergeReqStep
SpecMerge == InitMerge /\ [][NextMerge]_vars

\* The input of the call is drawn at the start.
InitLatex ==
    /\ IdleChat /\ InitCacheVars /\ InitJsonVars /\ InitRankVars /\ InitExtVars
    /\ InitMergeVars /\ InitPdfVars /\ InitProjectVars /\ InitOutlineVars
    /\ \E t \in LatexTexts \cup MarkdownTexts \cup Documents :
          lx = [NoLatexCall EXCEPT !.input = t]
NextLatex == FixItemizeStep \/ SimpleMarkdownStep \/ MarkdownToLatexStep
SpecLatex == InitLatex /\ [][NextLatex]_vars

InitPdf == IdleChat /\ InitCacheVars /\ InitJsonVars /\ InitRankVars /\ InitExtVars /\ InitDocVars
NextPdf == CompileBeginStep \/ EngineRunStep \/ ReportlabRunStep
SpecPdf == InitPdf /\ [][NextPdf]_vars

\* The argument of the call, and os.environ before it, are drawn at the start.
InitProject ==
    /\ IdleChat /\ InitCacheVars /\ InitJsonVars /\ InitRankVars /\ InitExtVars
    /\ InitMergeVars /\ InitLatexVars /\ InitPdfVars /\ InitOutlineVars
    /\ \/ \E value \in DateTexts : pj = [NoProjectCall EXCEPT !.value = value]
       \/ \E project \in Projects, environ \in Environs :
             pj = [NoProjectCall EXCEPT !.project = project, !.before = environ,
                                        !.environ = environ]
NextProject == FormatBidDateStep \/ ApplyProjectConfigStep
SpecProject == InitProject /\ [][NextProject]_vars

\* The two lists of the call are drawn at the start.
InitOutline ==
    /\ IdleChat /\ InitCacheVars /\ InitJsonVars /\ InitRankVars /\ InitExtVars
    /\ InitMergeVars /\ InitLatexVars /\ InitPdfVars /\ InitProjectVars
    /\ ol \in { [NoOutlineCall EXCEPT !.format_reqs = f, !.content_reqs = c] :
                  f \in FormatReqLists, c \in ContentReqLists }
NextOutline == BuildOutlineStep
SpecOutline == InitOutline /\ [][NextOutline]_vars

\* The table is drawn at the start.
InitTable ==
    /\ IdleChat /\ InitCacheVars /\ InitJsonVars /\ InitRankVars /\ InitDocVars
    /\ InitParseVars /\ InitTruncVars /\ InitExtractVars
    /\ \E t \in Tables : tb = [NoTable EXCEPT !.table = t]
NextTable == TableToMarkdownStep \/ MarkdownTableStep \/ TableToLatexStep
SpecTable == InitTable /\ [][NextTable]_vars

\* The arguments of the call and the cache before it are drawn at the start.
InitParse ==
    /\ IdleChat /\ InitJsonVars /\ InitRankVars /\ InitDocVars
    /\ InitTableVars /\ InitTruncVars /\ InitExtractVars
    /\ shadow = EmptyDir /\ sets = 0
    /\ lastGet = [asked |-> FALSE, messages |-> <<>>, result |-> None, latest |-> None]
    /\ \E suffix \in Suffixes, use_llm \in BOOLEAN :
          \E file \in ParseFiles(suffix) :
              /\ pr = [NoParseCall EXCEPT !.suffix = suffix, !.file = file,
                                         !.use_llm = use_llm]
              /\ cache \in ParseCaches(suffix, file)
NextParse == ParseRequirementsStep
SpecParse == InitParse /\ [][NextParse]_vars

\* The file at out_path before the call is drawn at the start.
InitExtract ==
    /\ IdleChat /\ InitCacheVars /\ InitJsonVars /\ InitRankVars /\ InitDocVars
    /\ InitTableVars /\ InitParseVars /\ InitTruncVars
    /\ \E old \in OldOutputs : ex = [NoExtract EXCEPT !.out = old]
NextExtract == ExtractBeginStep \/ ExtractPageStep
SpecExtract == InitExtract /\ [][NextExtract]_vars

\* The message list and the limit of the client are drawn at the start.
InitTrunc ==
    /\ IdleChat /\ InitCacheVars /\ InitJsonVars /\ InitRankVars /\ InitDocVars
    /\ InitTableVars /\ InitParseVars /\ InitExtractVars
    /\ \E messages \in ChatMessageLists, max \in 0..MaxInputTokens :
          tk = [NoChatInput EXCEPT !.messages = messages, !.caller = messages,
                                   !.max_input_tokens = max]
NextTrunc == ChatInputStep
SpecTrunc == InitTrunc /\ [][NextTrunc]_vars

\* ------------------------------------------------------------------------
\* Properties of LLMClient.chat
\* ------------------------------------------------------------------------
Max1(n) == IF n < 1 THEN 1 ELSE n

\* The call so far saw only transient failures.
OnlyTransient == pc \in {"running", "raised"} /\ ~quotaSeen

\* C2 (as stated): a chat call whose requests all fail transiently issues at
\* most max_retries requests before it raises.
C2_AtMostMaxRetries ==
    (pc = "raised" /\ ~quotaSeen) => requests <= max_retries

\* C2 (amended): a chat call whose requests all fail transiently makes
\* exactly max(1, max_retries) attempts and raises on the last of them, not
\* before; every attempt is a request, all to the same model, unless the
\* model list is empty, when no attempt gets as far as a request.
C2_RetryBound ==
    OnlyTransient =>
        /\ attempt <= Max1(max_retries)
        /\ requests = (IF nModels = 0 THEN 0 ELSE attempt)
        /\ Cardinality(usedModels) <= 1
        /\ (pc = "raised") <=> (attempt = Max1(max_retries))
        /\ (pc = "raised") => lastOutcome \in Raising

C2_Witness ==
    /\ pc = "raised" /\ ~quotaSeen
    /\ max_retries = MaxRetries /\ requests = MaxRetries

\* C3: every quota error moves the model index one position forward with
\* wrap-around, nothing else moves it (a new chat call included), and in
\* every reachable state the index is a valid position of a non-empty model
\* list.
C3_Rotation ==
    /\ [](nModels >= 1 /\ model_index \in 0..(nModels - 1))
    /\ [][LET quota == /\ request_counter' # request_counter
                       /\ lastOutcome' = "quota403"
          IN  /\ quota => model_index' = (model_index + 1) % nModels
              /\ ~quota => model_index' = model_index]_vars

\* C4: a running chat call eventually returns or raises.
C4_ChatTerminates == (pc = "running") ~> (pc \in {"returned", "raised"})

\* C8: the backoff sleeps of a call are 2^1, 2^2, ... one after every failed
\* attempt except the one that makes the call raise.
C8_Backoff ==
    /\ Len(delays) = (IF pc = "raised" THEN attempt - 1 ELSE attempt)
    /\ \A k \in 1..Len(delays) : delays[k] = 2 ^ k

C8_Witness ==
    /\ pc = "raised" /\ attempt = MaxRetries /\ Len(delays) = MaxRetries - 1

\* C9: a response with status 400 switches the client to the next model.
C9_Status400Rotates ==
    [][(request_counter' # request_counter /\ lastOutcome' = "http400")
        => model_index' = (model_index + 1) % nModels]_vars

\* ------------------------------------------------------------------------
\* Properties of LLMCache
\* ------------------------------------------------------------------------
\* C1: get(m) returns the value of the latest set that was done before it
\* on the same ordered list of messages (the order of a message's fields
\* being immaterial), and None when there was no such set.
C1_RoundTrip == lastGet.asked => lastGet.result = lastGet.latest

\* ------------------------------------------------------------------------
\* Properties of llm_json and llm_rewrite
\* ------------------------------------------------------------------------
Range(f) == {f[i] : i \in DOMAIN f}
StepRank(step) ==
    CASE step = "parse1" -> 1 [] step = "brace1" -> 2 [] step = "repair" -> 3
      [] step = "brace2" -> 4 [] step = "default" -> 5

\* C5: once the first response has arrived, llm_json goes through direct
\* parse, brace-substring parse, one repair request, brace-substring parse of
\* the repair response and the default, in this order; the repair request is
\* sent exactly when both parses of the first response fail; the value of
\* the first attempt that succeeds is returned; at most two requests are made.
C5_AttemptOrder ==
    (last.fn = "llm_json") =>
        /\ last.chats <= 2
        /\ last.r1.ok =>
            LET text == StripFences(last.r1.text)
                fail1 == ~JsonLoads(text).ok
                fail2 == ~BraceParse(text).ok
                tr == last.trace
                steps == Range(tr)
            IN  /\ tr # <<>> /\ tr[1] = "parse1"
                /\ \A i, j \in 1..Len(tr) : i < j => StepRank(tr[i]) < StepRank(tr[j])
                /\ ("brace1" \in steps) => fail1
                /\ ("repair" \in steps) <=> (fail1 /\ fail2)
                /\ ("repair" \in steps) <=> (last.chats = 2)
                /\ ("default" \in steps) =>
                       /\ "repair" \in steps /\ last.r2.ok
                       /\ ~BraceParse(StripFences(last.r2.text)).ok
                /\ ~fail1 => last.ret = Value(JsonLoads(text).data)
                /\ (fail1 /\ ~fail2) => last.ret = Value(BraceParse(text).data)
                /\ (fail1 /\ fail2 /\ last.r2.ok
                        /\ BraceParse(StripFences(last.r2.text)).ok) =>
                       last.ret = Value(BraceParse(StripFences(last.r2.text)).data)

C5_Witness ==
    /\ last.fn = "llm_json"
    /\ last.trace = <<"parse1", "brace1", "repair", "brace2", "default">>

\* The default structure each caller of llm_json can use: rank_files reads
\* data.get("score", 0.0), parse_requirements reads a list of items.
CallerDefault(system) ==
    IF system = SysRank THEN <<"OBJ_SCORE_0">> ELSE <<"OBJ_ITEMS">>

\* C6: when neither response yields JSON, llm_json returns the default
\* structure of its caller.
C6_CallerDefault ==
    (last.fn = "llm_json" /\ "default" \in Range(last.trace)) =>
        last.ret = Value(CallerDefault(last.system))

\* C7: a call on a (system, user) pair that an earlier call of the same
\* function answered makes no request and returns what that call returned.
C7_NoRepeatBilling ==
    (last.fn # "none" /\ last.prior.some) =>
        /\ last.chats = 0
        /\ last.ret = Value(last.prior.text)

\* ------------------------------------------------------------------------
\* Properties of rank_files
\* ------------------------------------------------------------------------
\* e comes before f in the ranking: higher score, or equal score and earlier
\* in the input.
Before(e, f) == e.score > f.score \/ (e.score = f.score /\ e.pos < f.pos)

\* The score the cache holds for a file once llm_json has answered for it.
CachedScore(file) ==
    ScoreOf(JsonLoads(CacheGet(cache, MsgSU(SysRank, UserOf(file))).text).data)

\* C10: for topk >= 0 a ranking that returns holds the readable files with
\* their LLM scores, best first, ties in input order, cut to
\* min(topk, number of readable files) entries; unreadable files are left out.
C10_TopK ==
    (rk.pc = "done" /\ rk.topk >= 0) =>
        LET res == rk.result
            readablePos == {i \in 1..Len(rk.files) : Readable(rk.files[i])}
            n == Cardinality(readablePos)
        IN  /\ {rk.scores[k].pos : k \in 1..Len(rk.scores)} = readablePos
            /\ Len(rk.scores) = n
            /\ Len(res) = (IF rk.topk < n THEN rk.topk ELSE n)
            /\ \A k \in 1..Len(res) :
                   /\ res[k] \in Range(rk.scores)
                   /\ res[k].file = rk.files[res[k].pos]
                   /\ res[k].score = CachedScore(res[k].file)
            /\ \A k, l \in 1..Len(res) : k < l => Before(res[k], res[l])
            /\ \A e \in Range(rk.scores) : e \notin Range(res) =>
                   \A k \in 1..Len(res) : Before(res[k], e)
            /\ (rk.topk >= 1 /\ n >= 1) =>
                   \A e \in Range(rk.scores) : res[1].score >= e.score

C10_Witness ==
    /\ rk.pc = "done" /\ rk.topk = 2 /\ Len(rk.files) = 3
    /\ ~Readable(rk.files[1])
    /\ Len(rk.result) = 2
    /\ rk.result[1].pos = 3 /\ rk.result[2].pos = 2

\* ------------------------------------------------------------------------
\* Properties of merge_contents
\* ------------------------------------------------------------------------
FilesOf(k) ==
    IF mg.reqs[k].id \in DOMAIN mg.ranked THEN mg.ranked[mg.reqs[k].id] ELSE <<>>
HasReadable(k) == \E j \in 1..Len(FilesOf(k)) : CanRead(FilesOf(k)[j][1])
Processed == 1..Len(mg.sections)

\* C11: merge_contents emits exactly one section per requirement, in the
\* order of the requirements list (the k-th section is headed by the k-th
\* requirement's title, and the returned Markdown is these sections joined),
\* meta has an entry for every requirement id, and a requirement without a
\* readable candidate file gets the placeholder section, selected = None
\* and no LLM request.
C11_OneSectionEach ==
    /\ mg.pc = "loop" => Len(mg.sections) = mg.i - 1
    /\ mg.pc = "done" =>
          /\ Len(mg.sections) = Len(mg.reqs)
          /\ mg.result = Join(mg.sections, <<"LF">>)
    /\ DOMAIN mg.meta = {mg.reqs[k].id : k \in Processed}
    /\ \A k \in Processed :
          /\ HasReadable(k) =>
                StartsWith(mg.sections[k],
                           <<"#", "s">> \o SectionTitle(mg.reqs[k].title) \o <<"LF", "LF">>)
          /\ ~HasReadable(k) =>
                /\ mg.sections[k] =
                      <<"#", "#", "s">> \o mg.reqs[k].title \o <<"LF", "LF", "PH_PRE">>
                      \o mg.reqs[k].title \o <<"PH_POST", "LF">>
                /\ ~mg.meta[mg.reqs[k].id].selected.some
                /\ mg.rounds[k].chats = 0
C11_Witness ==
    /\ mg.pc = "done" /\ mg.use_llm /\ Len(mg.reqs) = 2
    /\ FilesOf(1) # <<>> /\ ~HasReadable(1)
    /\ HasReadable(2) /\ mg.rounds[2].chats = 1

\* The stripped texts of the readable candidates of requirement k, in rank order.
ReadableTexts(k) ==
    LET readable == SelectSeq(FilesOf(k), LAMBDA f : CanRead(f[1]))
    IN  [j \in 1..Len(readable) |-> Strip(ReadText(FileBytes(readable[j][1])))]
BodyOf(k) ==
    LET joined == Join(ReadableTexts(k), <<"LF", "LF">>)
    IN  IF EndsWithNewpage(Strip(joined)) THEN joined
        ELSE RStrip(joined) \o <<"LF", "NEWPAGE">>

\* C12: with use_llm=False merge_contents makes no request and no cache
\* access, and for each requirement with readable candidates the section
\* body is the stripped texts joined in rank order, followed by \newpage
\* only when it does not already end with it, and selected lists the paths
\* of all of that requirement's candidates.
C12_NoLlmFrame ==
    ~mg.use_llm =>
        \A k \in Processed :
            /\ mg.rounds[k].chats = 0
            /\ mg.rounds[k].gets = 0 /\ mg.rounds[k].puts = 0
            /\ mg.rounds[k].before = cache
            /\ HasReadable(k) =>
                  /\ mg.sections[k] =
                        <<"#", "s">> \o SectionTitle(mg.reqs[k].title)
                        \o <<"LF", "LF">> \o BodyOf(k) \o <<"LF">>
                  /\ mg.meta[mg.reqs[k].id].selected =
                        [some |-> TRUE,
                         paths |-> [j \in 1..Len(FilesOf(k)) |-> FilesOf(k)[j][1]]]
C12_Witness ==
    /\ mg.pc = "done" /\ ~mg.use_llm /\ Len(mg.reqs) = 3
    /\ cache # EmptyDir
    /\ \E k \in Processed :
          HasReadable(k) /\ EndsWithNewpage(Strip(Join(ReadableTexts(k), <<"LF", "LF">>)))
    /\ \E k \in Processed :
          HasReadable(k) /\ ~EndsWithNewpage(Strip(Join(ReadableTexts(k), <<"LF", "LF">>)))
             /\ Len(FilesOf(k)) > Len(ReadableTexts(k))

\* ------------------------------------------------------------------------
\* Properties of latex_renderer.py
\* ------------------------------------------------------------------------
Balanced(t) == Cardinality(Occurrences(t, BeginItemize)) = Cardinality(Occurrences(t, EndItemize))
\* The number of itemize environments open after the first k tokens of t.
OpenAt(t, k) ==
    Cardinality(Occurrences(SubSeq(t, 1, k), BeginItemize))
    - Cardinality(Occurrences(SubSeq(t, 1, k), EndItemize))
ItemsInside(t) == \A k \in Occurrences(t, <<"b", "item">>) : OpenAt(t, k) > 0

\* C13: when the model call of markdown_to_latex(use_llm=True) raises, the
\* result is that of the line-based converter and nothing is raised; with
\* use_llm=False the result is that of the line-based converter and there
\* is no model request and no cache access.
C13_Fallback ==
    lx.fn = "markdown_to_latex" =>
        /\ (lx.use_llm /\ lx.r1 = ChatRaises) =>
                lx.ret = Value(SimpleMarkdownToLatex(lx.input))
        /\ ~lx.use_llm =>
                /\ lx.ret = Value(SimpleMarkdownToLatex(lx.input))
                /\ lx.chats = 0 /\ lx.gets = 0 /\ cache = lx.before

\* C16: the output of _fix_itemize_environments has as many \begin{itemize}
\* as \end{itemize}, whatever the input lines are.
C16_FixBalances ==
    lx.fn = "_fix_itemize_environments" => Balanced(lx.ret.val)

\* C17: the output of _simple_markdown_to_latex has as many \begin{itemize}
\* as \end{itemize} and each of its \item lies inside an open itemize
\* environment, whatever the Markdown input is.
C17_SimpleBalances ==
    lx.fn = "_simple_markdown_to_latex" =>
        Balanced(lx.ret.val) /\ ItemsInside(lx.ret.val)

\* ------------------------------------------------------------------------
\* Properties of compile_pdf
\* ------------------------------------------------------------------------
\* Run k put the output PDF in place.
Delivers(k) ==
    LET r == cp.runs[k]
    IN  /\ r.outcome.kind = "ok"
        /\ \/ r.found = "built"
           \/ r.found = "other" /\ r.method \in {"xelatex", "pdflatex"}
        /\ r.moved = "ok"
Ran(m) == \E k \in 1..Len(cp.runs) : cp.runs[k].method = m

\* C14: the methods run in the order xelatex (pass 1, pass 2), pdflatex,
\* latexmk, reportlab; a method starts only when every earlier one has run
\* without delivering the PDF; nothing runs after a delivery; RuntimeError
\* is raised only when all four methods have run and none delivered.
C14_ChainOrder ==
    /\ cp.runs # <<>> => cp.runs[1].method = "xelatex" /\ cp.runs[1].pass = 1
    /\ \A k \in 1..(Len(cp.runs) - 1) :
          /\ ~Delivers(k)
          /\ \/ /\ cp.runs[k].method = "xelatex" /\ cp.runs[k].pass = 1
                /\ cp.runs[k].outcome.kind = "ok"
                /\ cp.runs[k + 1].method = "xelatex" /\ cp.runs[k + 1].pass = 2
             \/ /\ MethodIndex(cp.runs[k + 1].method) = MethodIndex(cp.runs[k].method) + 1
                /\ cp.runs[k + 1].pass = 1
    /\ (cp.runs # <<>> /\ Delivers(Len(cp.runs))) => cp.pc = "done" /\ cp.result = "returned"
    /\ cp.result = "returned" => Delivers(Len(cp.runs))
    /\ cp.pc \in {"pdflatex", "latexmk", "reportlab"} =>
          /\ cp.runs # <<>>
          /\ MethodIndex(cp.pc) = MethodIndex(cp.runs[Len(cp.runs)].method) + 1
          /\ ~Delivers(Len(cp.runs))
    /\ cp.result = "RuntimeError" =>
          /\ \A k \in 1..Len(Methods) : Ran(Methods[k])
          /\ \A k \in 1..Len(cp.runs) : ~Delivers(k)
C14_Witness ==
    /\ cp.result = "RuntimeError" /\ Len(cp.runs) = 5
    /\ cp.runs[2].outcome.kind = "ok" /\ cp.runs[3].outcome.kind = "CalledProcessError"
    /\ cp.runs[4].outcome.kind = "ok"

\* C15: when a LaTeX engine run exits with a non-zero status, a warning that
\* carries the error output captured from that run (what the engine wrote
\* to its standard output and to its standard error) is written to the
\* build log, and compile_pdf goes on with the next method: the failure of
\* the engine does not leave compile_pdf.
C15_LogsEngineFailure ==
    /\ cp.result # "CalledProcessError"
    /\ \A k \in 1..Len(cp.runs) :
          cp.runs[k].outcome.kind = "CalledProcessError" =>
              /\ \E j \in 1..Len(cp.log) :
                    /\ cp.log[j].level = "warning"
                    /\ cp.log[j].msg = <<cp.runs[k].method, "failed">>
                    /\ HasSub(cp.log[j].text, cp.runs[k].outcome.stdout)
                    /\ HasSub(cp.log[j].text, cp.runs[k].outcome.stderr)
              /\ IF k < Len(cp.runs)
                 THEN MethodIndex(cp.runs[k + 1].method) = MethodIndex(cp.runs[k].method) + 1
                 ELSE cp.pc = Methods[MethodIndex(cp.runs[k].method) + 1]

\* ------------------------------------------------------------------------
\* Properties of format_bid_date and apply_project_config
\* ------------------------------------------------------------------------
DigitsAt(t, from, to) == \A k \in from..to : IsDigit(t[k])
\* YYYY年MM月DD日
IsFullDate(t) ==
    /\ Len(t) = 11 /\ DigitsAt(t, 1, 4) /\ t[5] = "YEAR" /\ DigitsAt(t, 6, 7)
    /\ t[8] = "MONTH" /\ DigitsAt(t, 9, 10) /\ t[11] = "DAY"
\* YYYY年MM月
IsYearMonth(t) ==
    /\ Len(t) = 8 /\ DigitsAt(t, 1, 4) /\ t[5] = "YEAR" /\ DigitsAt(t, 6, 7)
    /\ t[8] = "MONTH"

\* C19: whatever format_bid_date returns is of the form YYYY年MM月DD日 or
\* YYYY年MM月, and applying format_bid_date to it returns it unchanged.
C19_NormalizedAndIdempotent ==
    (pj.fn = "format_bid_date" /\ pj.ret.kind = "value") =>
        /\ IsFullDate(pj.ret.val) \/ IsYearMonth(pj.ret.val)
        /\ pj.again = pj.ret

MappedEnvs == {Mapping[k][2] : k \in 1..Len(Mapping)}
KeyOf(env) == Mapping[CHOOSE k \in 1..Len(Mapping) : Mapping[k][2] = env][1]
Given(key) == key \in DOMAIN pj.project /\ pj.project[key] # <<>>
RequiredMissing == ~Given("project_no") \/ ~Given("bid_date")
Untouched(env) ==
    /\ env \in DOMAIN pj.environ <=> env \in DOMAIN pj.before
    /\ env \in DOMAIN pj.before => pj.environ[env] = pj.before[env]
\* The variable of every other mapped key holds that key's value when it
\* has one, and is untouched when it has none.
OthersSet ==
    \A env \in MappedEnvs \ {"BID_DATE"} :
        IF Given(KeyOf(env))
        THEN env \in DOMAIN pj.environ /\ pj.environ[env] = pj.project[KeyOf(env)]
        ELSE Untouched(env)
NothingTouched == pj.environ = pj.before
AllSet ==
    /\ pj.ret = Value(<<>>)
    /\ OthersSet
    /\ "BID_DATE" \in DOMAIN pj.environ
    /\ Value(pj.environ["BID_DATE"]) = FormatBidDate(pj.project["bid_date"])
    /\ \A env \in DOMAIN pj.before \ MappedEnvs : Untouched(env)

\* C18 as stated: an empty mapping changes nothing; a non-empty one raises
\* when project_no or bid_date is missing or empty, and otherwise returns
\* with every variable of a non-empty mapped key set (BID_DATE normalized)
\* and the others untouched.
C18_SetsUnlessMissing ==
    pj.fn = "apply_project_config" =>
        IF DOMAIN pj.project = {} THEN pj.ret = Value(<<>>) /\ NothingTouched
        ELSE IF RequiredMissing THEN pj.ret = Raised
        ELSE AllSet

\* C18 amended: a bid_date that format_bid_date rejects also raises, after
\* the variables of the other non-empty mapped keys were set; a missing
\* required field raises before any variable is touched.
C18_SetsUnlessMissingOrBadDate ==
    pj.fn = "apply_project_config" =>
        IF DOMAIN pj.project = {} THEN pj.ret = Value(<<>>) /\ NothingTouched
        ELSE IF RequiredMissing THEN pj.ret = Raised /\ NothingTouched
        ELSE IF FormatBidDate(pj.project["bid_date"]).kind = "raise"
        THEN pj.ret = Raised /\ OthersSet /\ Untouched("BID_DATE")
        ELSE AllSet
C18_Witness ==
    /\ pj.fn = "apply_project_config" /\ pj.ret = Value(<<>>)
    /\ pj.before # EmptyDir
    /\ Given("bid_date") /\ pj.environ["BID_DATE"] # pj.project["bid_date"]
    /\ "bid_title" \in DOMAIN pj.project /\ ~Given("bid_title")
    /\ "supplier_name" \notin DOMAIN pj.project

\* C30: whenever apply_project_config raises, for a missing required field
\* or for a bid_date of no recognized format, the call has modified no
\* environment variable.
C30_AllOrNothing ==
    (pj.fn = "apply_project_config" /\ pj.ret = Raised) => NothingTouched

\* ------------------------------------------------------------------------
\* Properties of build_outline
\* ------------------------------------------------------------------------
NonBlank(lines) == SelectSeq(lines, LAMBDA l : l # <<>>)
BulletsUnder(fmt, content_reqs) ==
    LET own == SelectSeq(content_reqs, LAMBDA item : item.section = fmt.section)
    IN  [k \in 1..Len(own) |-> BulletLine(own[k])]
ClaimedBlock(fmt, content_reqs) ==
    << <<"#", "s">> \o fmt.section >>
    \o (IF fmt.details # <<>> THEN <<fmt.details>> ELSE <<>>)
    \o BulletsUnder(fmt, content_reqs)
ClaimedLines(format_reqs, content_reqs) ==
    Concat([k \in 1..Len(format_reqs) |-> ClaimedBlock(format_reqs[k], content_reqs)])
Outlined == ol.fn = "build_outline"

\* C20 (as stated): the non-blank lines of the outline are, for each format
\* requirement in input order, its "# section" heading, its details when
\* non-empty, and one bullet for every content requirement of that section in
\* input order; content requirements of no listed section give no line.
C20_OutlineAsClaimed ==
    Outlined =>
        NonBlank(SplitLines(ol.ret)) = ClaimedLines(ol.format_reqs, ol.content_reqs)

\* C20 (amended): the outline has exactly those lines once whitespace at the
\* very end of the text is stripped: the outline is the claimed text without
\* its trailing whitespace.
C20_OutlineUpToStrip ==
    Outlined =>
        NonBlank(SplitLines(ol.ret)) =
            NonBlank(SplitLines(Strip(Join(ClaimedLines(ol.format_reqs, ol.content_reqs),
                                           <<"LF">>))))

\* Two format requirements, one with details, a content requirement listed
\* under a heading and one whose section matches no format requirement.
C20_Witness ==
    /\ Outlined
    /\ Len(ol.format_reqs) = 2
    /\ \E k \in 1..2 : ol.format_reqs[k].details # <<>>
    /\ \E i \in 1..Len(ol.content_reqs) :
          \E k \in 1..2 : ol.content_reqs[i].section = ol.format_reqs[k].section
    /\ \E i \in 1..Len(ol.content_reqs) :
          \A k \in 1..2 : ol.content_reqs[i].section # ol.format_reqs[k].section
    /\ NonBlank(SplitLines(ol.ret)) = ClaimedLines(ol.format_reqs, ol.content_reqs)
\* ------------------------------------------------------------------------
\* Properties of the table rendering paths
\* ------------------------------------------------------------------------
RECURSIVE SplitColumns(_)
SplitColumns(t) ==
    IF \E k \in 1..Len(t) : t[k] = "&"
    THEN LET k == CHOOSE k \in 1..Len(t) : t[k] = "&" /\ \A j \in 1..(k - 1) : t[j] # "&"
         IN  <<SubSeq(t, 1, k - 1)>> \o SplitColumns(SubSeq(t, k + 1, Len(t)))
    ELSE <<t>>
\* The text is a tabular environment: \begin{tabular}{...}, rows, \end{tabular}.
IsTabular(out) ==
    LET lines == SplitLines(out)
    IN  /\ Len(lines) >= 2
        /\ StartsWith(lines[1], BeginTabular) /\ EndsWith(lines[1], <<"}">>)
        /\ lines[Len(lines)] = EndTabular
\* The number of columns its column specification declares.
ColumnsOf(out) == Count(SplitLines(out)[1], "l")
\* Its rows, each as the cells the column separator "&" divides it into.
RowsOf(out) ==
    LET lines == SplitLines(out)
        rows == SelectSeq(SubSeq(lines, 2, Len(lines) - 1), LAMBDA l : l # Hline)
    IN  [k \in 1..Len(rows) |->
            SplitColumns(IF EndsWith(rows[k], <<"b", "b">>)
                         THEN SubSeq(rows[k], 1, Len(rows[k]) - 2) ELSE rows[k])]
\* The tabular holds the table: as many columns, the same rows, and in each
\* row the cells in order (as the escaping writes them, spaces around a cell
\* aside).
HoldsTable(out, table) ==
    /\ IsTabular(out)
    /\ ColumnsOf(out) = Len(table[1])
    /\ Len(RowsOf(out)) = Len(table)
    /\ \A i \in 1..Len(table) :
          /\ Len(RowsOf(out)[i]) = Len(table[i])
          /\ \A j \in 1..Len(table[i]) :
                Strip(RowsOf(out)[i][j]) = TableEscapeLatex(Strip(table[i][j]))

\* C21: for a non-empty rectangular table without "|" and line breaks in its
\* cells, the tabular made by table_to_latex and the one made by
\* markdown_to_latex from table_to_markdown both hold every cell of the
\* table, row by row in order, in the table's number of columns.
C21_TablePathsAgree ==
    /\ tb.direct # None => HoldsTable(tb.direct.text, tb.table)
    /\ tb.via # None => HoldsTable(tb.via.text, tb.table)
\* ------------------------------------------------------------------------
\* Properties of parse_requirements
\* ------------------------------------------------------------------------
ParseDone == pr.fn = "parse_requirements"
\* The JSON values a response holds: the stripped text itself, or the part
\* between its first "{" and its last "}".
JsonIn(r) ==
    IF ~r.ok THEN {}
    ELSE (IF JsonLoads(StripFences(r.text)).ok
          THEN {JsonLoads(StripFences(r.text)).data} ELSE {})
         \cup (IF BraceParse(StripFences(r.text)).ok
               THEN {BraceParse(StripFences(r.text)).data} ELSE {})
\* The JSON the model produced for this request: in this call, or earlier and
\* kept in the cache.
CachedJson ==
    LET cached == CacheGet(pr.before, MsgSU(SysParse, ParseUser(TextOf(pr.suffix, pr.file))))
    IN  IF pr.file.some /\ cached.some /\ JsonLoads(cached.text).ok
        THEN {JsonLoads(cached.text).data} ELSE {}
ProducedJson == JsonIn(pr.r1) \cup JsonIn(pr.r2) \cup CachedJson

\* C22: with use_llm=True parse_requirements returns items built from the
\* JSON the model produced or raises RuntimeError, and it raises when the
\* model produced no JSON; with use_llm=False it raises ValueError for a PDF
\* and for any input other than .json/.csv.
C22_LlmOnly ==
    ParseDone =>
        /\ pr.use_llm =>
              \/ pr.ret = Raise("RuntimeError")
              \/ /\ pr.ret.kind = "value"
                 /\ \E data \in ProducedJson : pr.ret = ConvertItems(ItemsRaw(data))
        /\ pr.use_llm /\ ProducedJson = {} => pr.ret.kind = "raise"
        /\ ~pr.use_llm /\ pr.suffix \notin {".json", ".csv"} => pr.ret = Raise("ValueError")
\* ------------------------------------------------------------------------
\* Properties of the input length bound of LLMClient.chat
\* ------------------------------------------------------------------------
\* C23: the combined content length of the messages sent to the model is at
\* most max_input_tokens, and the message objects of the caller are as they
\* were before the call.
C23_InputBound ==
    tk.fn = "chat" =>
        /\ TotalLen(tk.sent) <= tk.max_input_tokens
        /\ tk.caller = tk.messages
\* The rewrite request made for requirement k raised.
RewriteRaised(k) == mg.use_llm /\ mg.rounds[k].chats = 1 /\ mg.rounds[k].puts = 0

\* C24: with use_llm=True, when the rewrite request for a requirement raises,
\* its section is built from the joined snippets, the call goes on with the
\* next requirement, and it returns a section for every requirement.
C24_SurvivesLlmFailure ==
    \A k \in Processed :
        RewriteRaised(k) =>
            /\ mg.sections[k] =
                  <<"#", "s">> \o SectionTitle(mg.reqs[k].title)
                  \o <<"LF", "LF">> \o BodyOf(k) \o <<"LF">>
            /\ mg.pc \in {"loop", "done"}
            /\ mg.pc = "loop" => mg.i = Len(mg.sections) + 1 /\ mg.i <= Len(mg.reqs)
            /\ mg.pc = "done" =>
                  Len(mg.sections) = Len(mg.reqs) /\ mg.result = Join(mg.sections, <<"LF">>)
\* The first of three requests raised and the call returned all three sections.
C24_Witness ==
    /\ mg.pc = "done" /\ Len(mg.reqs) = 3 /\ Len(mg.sections) = 3
    /\ RewriteRaised(1) /\ mg.rounds[3].chats = 1 /\ ~RewriteRaised(3)
\* The extraction of page k failed: the model call failed or its reply, with
\* the fence removed, is not valid JSON.
PageFailed(k) == ~ex.rounds[k].ok \/ ~JsonLoads(Unfenced(ex.rounds[k].text)).ok
\* The lines of the pages among the first n whose extraction succeeded.
RECURSIVE GoodLines(_)
GoodLines(n) ==
    IF n = 0 THEN <<>>
    ELSE IF PageFailed(n) THEN GoodLines(n - 1)
    ELSE OnePage(GoodLines(n - 1), ex.rounds[n]).lines

\* C25: a page whose extraction fails is skipped: the loop goes on with the
\* next page, and after the last page the output file holds the lines of the
\* pages that succeeded.
C25_PageIsolation ==
    (\E k \in 1..Len(ex.rounds) : PageFailed(k)) =>
        /\ ex.pc \in {"loop", "done"}
        /\ ex.pc = "loop" => ex.page_number = Len(ex.rounds) + 1
        /\ ex.pc = "done" =>
              /\ Len(ex.rounds) = ex.total_pages
              /\ ex.out = Some(Join(GoodLines(ex.total_pages), <<"LF">>))
\* C26: when the repair response, with its fences removed, is valid JSON of
\* any top-level kind, llm_json returns exactly the value it parses to.
C26_RepairHonoured ==
    (/\ last.fn = "llm_json" /\ last.chats = 2 /\ last.r2.ok
     /\ JsonLoads(StripFences(last.r2.text)).ok) =>
        last.ret = Value(JsonLoads(StripFences(last.r2.text)).data)
\* The entry under the key of the last request, as cache.get reads it.
LastEntry == CacheGet(cache, MsgSU(last.system, last.user))

\* C27: every entry llm_json writes is valid JSON text, also in a call whose
\* request raises, and after a normal return the entry under the request key
\* holds the value the call returned.  A call that raises found no valid
\* entry under its key, so an entry that is there afterwards is one the call
\* wrote (line 56).
C27_CacheHoldsJson ==
    (last.fn = "llm_json") =>
        /\ last.ret.kind = "raise" /\ LastEntry.some => JsonLoads(LastEntry.text).ok
        /\ last.ret.kind = "value" =>
              /\ LastEntry.some /\ JsonLoads(LastEntry.text).ok
              /\ JsonLoads(LastEntry.text).data = last.ret.val
\* C28: whenever compile_pdf returns without raising, a file exists at
\* out_pdf.
C28_ReturnLeavesFile == cp.result = "returned" => cp.out
\* No file was at out_pdf, a rename failed after out_pdf had been unlinked,
\* and a later method delivered.
C28_Witness ==
    /\ cp.result = "returned" /\ ~cp.old /\ cp.out
    /\ \E k \in 1..Len(cp.runs) : cp.runs[k].moved = "FileNotFoundError"

\* C29: a file that exists at out_pdf when compile_pdf is called is still
\* there, or replaced by a new one, at every point of the call and after it,
\* whether the call returns or raises.
C29_KeepsOutput == cp.old => cp.out
====
